---- MODULE Spec2Model ----
(***************************************************************************)
(* A model of GenPowerpoint: the style cascade and the layout catalog of   *)
(* deep_scanner.py, and the layout resolver and the content injector of    *)
(* app.py.                                                                  *)
(*                                                                          *)
(* Python's None is the string None below (NoSize for a number); a dict    *)
(* key that is absent and a key that maps to None are told apart only      *)
(* where the code tells them apart.                                         *)
(***************************************************************************)
EXTENDS Integers, Sequences, FiniteSets, TLC

VARIABLES
    txBody,         \* injector: the <a:p> children of a placeholder's <p:txBody>
    txBody0,        \* injector: the text body as it was before the last call
    call,           \* injector: the last call, [op, args, raised]
    ph,             \* cascade: the placeholder scanned, [ph_type, idx, body]
    master_styles,  \* cascade: what _extract_master_text_styles returned
    theme_fonts,    \* cascade: what _extract_theme_fonts returned
    theme_colors,   \* cascade: what _extract_theme_colors returned
    detail,         \* cascade: _extract_placeholder_detail of the four above
    cls,            \* cascade: _classify_placeholder of the placeholder scanned
    prs,            \* catalog: the document, a sequence of masters, each the
                    \*          sequence of its layouts
    schema_layouts, \* catalog: the layouts list of the stored catalog
    built,          \* catalog: how the catalog came about: none, scanned,
                    \*          raised (the scan failed) or imported
    resolved,       \* catalog: the last call of _resolve_layout_from_schema
    template_slides,\* generation: the slides of the seed template
    slides,         \* generation: the slides of the document being built
    json_slides,    \* generation: the slide specs of the request
    gen,            \* generation: where create_pptx_from_json stands
    sidecar,        \* store: the schema sidecar file of one template
    reqs,           \* store: the schema requests in flight, by request
    profiles,       \* store: the built-in profiles, the pptx of each id
    master_dir,     \* store: the files of the built-in template directory
    answer          \* store: the answer to the last built-in request

injVars == <<txBody, txBody0, call>>
styleVars == <<ph, master_styles, theme_fonts, theme_colors, detail, cls>>
catVars == <<prs, schema_layouts, built, resolved>>
genVars == <<template_slides, slides, json_slides, gen>>
sidecarVars == <<sidecar, reqs>>
builtinVars == <<profiles, master_dir, answer>>
storeVars == <<sidecar, reqs, profiles, master_dir, answer>>
vars == <<txBody, txBody0, call, ph, master_styles, theme_fonts, theme_colors, detail, cls,
          prs, schema_layouts, built, resolved, template_slides, slides, json_slides, gen,
          sidecar, reqs, profiles, master_dir, answer>>

None == "<None>"
NoSize == -1

(***************************************************************************)
(* The markup tree.  A paragraph <a:p> is the sequence of its children; a  *)
(* child is a record [tag, algn, rpr, t]: tag is pPr, r, endParaRPr or br; *)
(* algn is the algn attribute of a pPr; rpr is the run-properties element  *)
(* the node carries (the defRPr of a pPr, the rPr of a run, or the         *)
(* endParaRPr itself); t is the text of a run's <a:t>.                     *)
(***************************************************************************)
\* A run-properties element: the typeface of its <a:latin> and <a:ea>, its sz
\* and b attributes, and the val of the <a:srgbClr> and <a:schemeClr> of its
\* <a:solidFill>; has is FALSE for "no such element".
NoRPr == [has |-> FALSE, latin |-> None, ea |-> None, sz |-> NoSize, b |-> None,
          srgb |-> None, schm |-> None]

RPr(latin, ea, sz, b, srgb, schm) ==
    [has |-> TRUE, latin |-> latin, ea |-> ea, sz |-> sz, b |-> b,
     srgb |-> srgb, schm |-> schm]

PPrNode(algn, defRPr) == [tag |-> "pPr", algn |-> algn, rpr |-> defRPr, t |-> None]
RunNode(rPr, text) == [tag |-> "r", algn |-> None, rpr |-> rPr, t |-> text]
EndNode(rpr) == [tag |-> "endParaRPr", algn |-> None, rpr |-> rpr, t |-> None]
BrNode == [tag |-> "br", algn |-> None, rpr |-> NoRPr, t |-> None]

\* p.find(tag): the position of the first child with that tag, 0 when there is none
Find(p, tag) ==
    IF \E i \in 1..Len(p) : p[i].tag = tag
    THEN CHOOSE i \in 1..Len(p) : p[i].tag = tag /\ \A j \in 1..(i - 1) : p[j].tag # tag
    ELSE 0

(***************************************************************************)
(* Python values that reach the injector, and str() of them.               *)
(***************************************************************************)
StrVal(s) == [ty |-> "str", s |-> s, n |-> 0]
IntVal(n) == [ty |-> "int", s |-> None, n |-> n]
NoneVal == [ty |-> "NoneType", s |-> None, n |-> 0]
ListVal(items) == [ty |-> "list", s |-> None, n |-> 0, items |-> items]

Digit(d) == CASE d = 0 -> "0" [] d = 1 -> "1" [] d = 2 -> "2" [] d = 3 -> "3"
              [] d = 4 -> "4" [] d = 5 -> "5" [] d = 6 -> "6" [] d = 7 -> "7"
              [] d = 8 -> "8" [] d = 9 -> "9"

RECURSIVE NatStr(_)
NatStr(n) == IF n < 10 THEN Digit(n) ELSE NatStr(n \div 10) \o Digit(n % 10)

\* repr(v) of a value that is not a list
Repr(v) ==
    CASE v.ty = "str" -> "'" \o v.s \o "'"
      [] v.ty = "int" -> IF v.n < 0 THEN "-" \o NatStr(-v.n) ELSE NatStr(v.n)
      [] v.ty = "NoneType" -> "None"

\* ", ".join(repr(x) for x in items)
RECURSIVE JoinRepr(_)
JoinRepr(items) ==
    IF items = << >> THEN ""
    ELSE IF Len(items) = 1 THEN Repr(items[1])
    ELSE Repr(items[1]) \o ", " \o JoinRepr(Tail(items))

\* str(v)
Str(v) ==
    CASE v.ty = "str" -> v.s
      [] v.ty = "int" -> IF v.n < 0 THEN "-" \o NatStr(-v.n) ELSE NatStr(v.n)
      [] v.ty = "NoneType" -> "None"
      [] v.ty = "list" -> "[" \o JoinRepr(v.items) \o "]"

(***************************************************************************)
(* app.py, the XML-safe placeholder helpers.                               *)
(***************************************************************************)
\* a paragraph left with its children: the clearing loop forgotten
ClearChildren_kept(p) == p

\* for child in list(p): p.remove(child)
ClearChildren(p) == << >>

\* if pPr is not None: p.insert(0, pPr)
ReinsertPPr(p, pPr) == IF pPr # << >> THEN pPr \o p ELSE p

\* a run that is stamped with a literal color
AppendRun_stamped(p, text) ==
    Append(p, RunNode(RPr(None, None, NoSize, None, "FF0000", None), Str(text)))

\* r = SubElement(p, a:r); t = SubElement(r, a:t); t.text = str(text)
AppendRun(p, text) == Append(p, RunNode(NoRPr, Str(text)))

\* the captured endParaRPr dropped instead of appended
ReappendEnd_dropped(p, endParaRPr) == p

\* if endParaRPr is not None: p.append(endParaRPr)
ReappendEnd(p, endParaRPr) == IF endParaRPr # << >> THEN p \o endParaRPr ELSE p

\* The body both helpers run on one paragraph: capture pPr and endParaRPr,
\* clear the paragraph, put pPr back first, add the run, put endParaRPr last.
\* A captured node is a sequence of at most one node.
FillParagraph(p, text) ==
    LET iP == Find(p, "pPr")
        iE == Find(p, "endParaRPr")
        pPr == IF iP = 0 THEN << >> ELSE <<p[iP]>>
        endParaRPr == IF iE = 0 THEN << >> ELSE <<p[iE]>>
    IN  ReappendEnd(AppendRun(ReinsertPPr(ClearChildren(p), pPr), text), endParaRPr)

\* for p in paras[1:]: txBody.remove(p)
KeepFirst(body) == <<body[1]>>

\* _set_placeholder_text on a body that has a first paragraph
set_placeholder_text(body, text) ==
    LET kept == KeepFirst(body)
    IN  [kept EXCEPT ![1] = FillParagraph(kept[1], text)]

\* a pass that adds the item's run to the copy without clearing the copy
ListStep_stale(body, items, i) ==
    LET first_p == body[1]
    IN  IF i = 0 THEN [body EXCEPT ![1] = FillParagraph(first_p, items[i + 1])]
        ELSE Append(body, AppendRun(first_p, items[i + 1]))

\* One pass of the loop of _set_placeholder_list, item i (0-based) of items:
\* item 0 is written into first_p in place; a later item is written into a
\* deep copy of first_p as it is at that moment, appended to the body.
ListStep(body, items, i) ==
    LET first_p == body[1]
    IN  IF i = 0 THEN [body EXCEPT ![1] = FillParagraph(first_p, items[i + 1])]
        ELSE Append(body, FillParagraph(first_p, items[i + 1]))

RECURSIVE ListLoop(_, _, _)
ListLoop(body, items, i) ==
    IF i >= Len(items) THEN body ELSE ListLoop(ListStep(body, items, i), items, i + 1)

\* _set_placeholder_list on a body that has a first paragraph
set_placeholder_list(body, items) == ListLoop(KeepFirst(body), items, 0)

(***************************************************************************)
(* The injector on one text body: the body is authored node by node, then  *)
(* the helpers are called on it.                                            *)
(***************************************************************************)
MaxSize == 5        \* paragraphs plus nodes of an authored text body
MaxItems == 2       \* items of an injected list

RPrBold == RPr(None, None, NoSize, "1", None, None)
RPrSz == RPr(None, None, 1800, None, None, None)

InjNodes == { PPrNode("l", NoRPr), PPrNode("ctr", RPrSz), RunNode(RPrBold, "old"),
              EndNode(RPrSz), BrNode }

Values == { StrVal("Hello"), IntVal(12), NoneVal }
ItemValues == { StrVal("a"), IntVal(7) }

RECURSIVE SeqsUpTo(_, _)
SeqsUpTo(S, n) ==
    IF n = 0 THEN { << >> }
    ELSE LET shorter == SeqsUpTo(S, n - 1)
         IN  shorter \cup { Append(s, x) : s \in { q \in shorter : Len(q) = n - 1 }, x \in S }

RECURSIVE NodeCount(_)
NodeCount(body) ==
    IF body = << >> THEN 0 ELSE Len(body[1]) + NodeCount(Tail(body))

BodySize(body) == Len(body) + NodeCount(body)

NoCall == [op |-> "none", args |-> << >>, raised |-> FALSE]

\* the injector at rest, for the specifications that do not run it
InjectIdle == txBody = << >> /\ txBody0 = << >> /\ call = NoCall

\* the cascade at rest, for the specifications that do not run it
StyleIdle ==
    /\ ph = None
    /\ master_styles = None
    /\ theme_fonts = None
    /\ theme_colors = None
    /\ detail = None
    /\ cls = None

\* no call of _resolve_layout_from_schema yet
NoResolve == [called |-> FALSE, layout_index |-> 0, raised |-> FALSE, layout |-> << >>]

\* generation not started: no request to /generate yet.  pc is where the
\* request stands, slides_kind what the slides field of its body is, i the
\* slide specs processed, opened whether the template was opened, raised_by
\* the step an exception came from, status the status of the response (0
\* before there is one)
NoGen == [pc |-> "idle", slides_kind |-> "none", i |-> 0, opened |-> FALSE,
          raised_by |-> "none", status |-> 0]

\* generation at rest, for the specifications that do not run it
GenIdle ==
    /\ template_slides = << >>
    /\ slides = << >>
    /\ json_slides = << >>
    /\ gen = NoGen

\* the built-in templates at rest, for the specifications without them
BuiltinIdle ==
    /\ profiles = << >>
    /\ master_dir = {}
    /\ answer = None

\* the sidecar at rest, for the specifications that do not write it
SidecarIdle ==
    /\ sidecar = None
    /\ reqs = << >>

\* the stores at rest
StoreIdle == SidecarIdle /\ BuiltinIdle

\* the catalog at rest, for the specifications that do not build or read it
CatalogIdle ==
    /\ prs = << >>
    /\ schema_layouts = << >>
    /\ built = "none"
    /\ resolved = NoResolve

InitInject ==
    /\ txBody = << >>
    /\ txBody0 = << >>
    /\ call = NoCall
    /\ StyleIdle
    /\ CatalogIdle
    /\ GenIdle
    /\ StoreIdle

\* the template author adds an empty paragraph
AddParagraph ==
    /\ call.op = "none"
    /\ BodySize(txBody) < MaxSize
    /\ txBody' = Append(txBody, << >>)
    /\ UNCHANGED <<txBody0, call>>
    /\ UNCHANGED <<styleVars, catVars, genVars, storeVars>>

\* the template author adds a child to the last paragraph
AddChild ==
    /\ call.op = "none"
    /\ txBody # << >>
    /\ BodySize(txBody) < MaxSize
    /\ \E n \in InjNodes :
          txBody' = [txBody EXCEPT ![Len(txBody)] = Append(@, n)]
    /\ UNCHANGED <<txBody0, call>>
    /\ UNCHANGED <<styleVars, catVars, genVars, storeVars>>

\* _set_placeholder_text(placeholder, text); paras[0] raises IndexError on a
\* body with no paragraph, before anything is changed
SetPlaceholderText ==
    \E text \in Values :
        /\ UNCHANGED <<styleVars, catVars, genVars, storeVars>>
        /\ txBody0' = txBody
        /\ IF txBody = << >>
           THEN /\ call' = [op |-> "text", args |-> <<text>>, raised |-> TRUE]
                /\ UNCHANGED txBody
           ELSE /\ call' = [op |-> "text", args |-> <<text>>, raised |-> FALSE]
                /\ txBody' = set_placeholder_text(txBody, text)

\* _set_placeholder_list(placeholder, items); existing[0] raises IndexError on
\* a body with no paragraph, before anything is changed
SetPlaceholderList ==
    \E items \in SeqsUpTo(ItemValues, MaxItems) :
        /\ UNCHANGED <<styleVars, catVars, genVars, storeVars>>
        /\ txBody0' = txBody
        /\ IF txBody = << >>
           THEN /\ call' = [op |-> "list", args |-> items, raised |-> TRUE]
                /\ UNCHANGED txBody
           ELSE /\ call' = [op |-> "list", args |-> items, raised |-> FALSE]
                /\ txBody' = set_placeholder_list(txBody, items)

NextInject ==
    AddParagraph \/ AddChild \/ SetPlaceholderText \/ SetPlaceholderList

SpecInject == InitInject /\ [][NextInject]_vars

(***************************************************************************)
(* Properties of the injector.                                             *)
(***************************************************************************)
HasTag(p, tag) == \E i \in 1..Len(p) : p[i].tag = tag
FirstWith(p, tag) == p[Find(p, tag)]
Runs(p) == { i \in 1..Len(p) : p[i].tag = "r" }
B2N(b) == IF b THEN 1 ELSE 0

\* The paragraph p holds what the text case leaves of the paragraph p0 for the
\* string s: p0's pPr if it had one, one run with text s, p0's endParaRPr if it
\* had one, in that order and nothing else.
IsFilled(p, p0, s) ==
    LET hasP == HasTag(p0, "pPr")
        hasE == HasTag(p0, "endParaRPr")
    IN  /\ Len(p) = 1 + B2N(hasP) + B2N(hasE)
        /\ hasP => p[1] = FirstWith(p0, "pPr")
        /\ hasE => p[Len(p)] = FirstWith(p0, "endParaRPr")
        /\ Cardinality(Runs(p)) = 1
        /\ \A i \in Runs(p) : i = 1 + B2N(hasP) /\ p[i].t = s

\* C3: after _set_placeholder_text on a text body with at least one paragraph
\* the body has exactly one paragraph, whose children are the first paragraph's
\* original pPr (if any), one run holding str(text), and the original
\* endParaRPr (if any) as the last child; no error is raised.
C3_TextInjection ==
    (call.op = "text" /\ txBody0 # << >>) =>
        /\ ~call.raised
        /\ Len(txBody) = 1
        /\ IsFilled(txBody[1], txBody0[1], Str(call.args[1]))

\* C3's case: a body of two paragraphs whose first holds a pPr, an old run and
\* an endParaRPr, injected with the integer 12
C3_Witness ==
    /\ call.op = "text"
    /\ call.args = <<IntVal(12)>>
    /\ Len(txBody0) = 2
    /\ Len(txBody0[1]) = 3
    /\ txBody0[1][1].tag = "pPr"
    /\ txBody0[1][2].tag = "r"
    /\ txBody0[1][3].tag = "endParaRPr"
    /\ txBody = << <<txBody0[1][1], RunNode(NoRPr, "12"), txBody0[1][3]>> >>

\* C4 as claimed: after _set_placeholder_list with a list of any length the
\* body has exactly len(items) paragraphs, the i-th holding exactly one run
\* whose text is str(items[i]).
C4_ListInjection_AnyLength ==
    (call.op = "list" /\ txBody0 # << >>) =>
        /\ Len(txBody) = Len(call.args)
        /\ \A i \in 1..Len(txBody) :
              /\ Cardinality(Runs(txBody[i])) = 1
              /\ \A j \in Runs(txBody[i]) : txBody[i][j].t = Str(call.args[i])

\* C4 amended: for a list of at least one item the body has exactly len(items)
\* paragraphs, the i-th holding exactly one run whose text is str(items[i]);
\* for the empty list the body keeps its first paragraph, unchanged, and
\* nothing else.
C4_ListInjection ==
    (call.op = "list" /\ txBody0 # << >>) =>
        /\ ~call.raised
        /\ IF call.args = << >>
           THEN txBody = <<txBody0[1]>>
           ELSE /\ Len(txBody) = Len(call.args)
                /\ \A i \in 1..Len(txBody) :
                      /\ Cardinality(Runs(txBody[i])) = 1
                      /\ \A j \in Runs(txBody[i]) : txBody[i][j].t = Str(call.args[i])

\* C4's case: a body of two paragraphs whose first holds an old run, injected
\* with the two items "a" and 7
C4_Witness ==
    /\ call.op = "list"
    /\ call.args = <<StrVal("a"), IntVal(7)>>
    /\ Len(txBody0) = 2
    /\ HasTag(txBody0[1], "r")
    /\ Len(txBody) = 2
    /\ \E i \in 1..Len(txBody[1]) : txBody[1][i] = RunNode(NoRPr, "a")
    /\ \E i \in 1..Len(txBody[2]) : txBody[2][i] = RunNode(NoRPr, "7")

(***************************************************************************)
(* deep_scanner.py, the style cascade.                                     *)
(*                                                                          *)
(* A font dict is a record [name, ea_name, size, bold, color, align]; a    *)
(* key that is None or absent is None (NoSize for size, NoColor for        *)
(* color).  A size is in tenths of a point.  A color is a record: Hex(v)   *)
(* for the string "#" + v, Scheme(v) for the string "scheme:" + v.         *)
(* Python's True and False are the strings True and False.                 *)
(***************************************************************************)
PyTrue == "True"
PyFalse == "False"
PyBool(b) == IF b THEN PyTrue ELSE PyFalse

NoColor == [kind |-> "none", val |-> None]
Hex(v) == [kind |-> "hex", val |-> v]
Scheme(v) == [kind |-> "scheme", val |-> v]

TitlePhTypes == {"TITLE", "CENTER_TITLE", "VERTICAL_TITLE"}
FixedPhTypes == {"DATE", "FOOTER", "SLIDE_NUMBER"}
PicturePhTypes == {"PICTURE"}
BodyPhTypes == {"BODY", "OBJECT", "SUBTITLE", "TABLE", "CHART", "ORG_CHART", "MEDIA_CLIP"}

\* a classification that tests the fixed types before the title rule
classify_placeholder_fixedFirst(p) ==
    IF p.ph_type \in FixedPhTypes THEN "fixed"
    ELSE IF p.ph_type \in TitlePhTypes \/ p.idx = 0 THEN "title"
    ELSE IF p.ph_type \in PicturePhTypes THEN "picture"
    ELSE "content"

\* _classify_placeholder(ph)
classify_placeholder(p) ==
    IF p.ph_type \in TitlePhTypes \/ p.idx = 0 THEN "title"
    ELSE IF p.ph_type \in FixedPhTypes THEN "fixed"
    ELSE IF p.ph_type \in PicturePhTypes THEN "picture"
    ELSE "content"


\* typefaces that start with "+": references to the theme's fonts
ThemeFontRefs == {"+mj-lt", "+mn-lt", "+mj-ea", "+mn-ea"}
StartsWithPlus(tf) == tf \in ThemeFontRefs

\* a typeface test that lets the references to the theme's fonts through
Typeface_keepRefs(tf) == IF tf # None /\ tf # "" THEN tf ELSE None

\* tf and not tf.startswith("+")
Typeface(tf) == IF tf # None /\ tf # "" /\ ~StartsWithPlus(tf) THEN tf ELSE None

\* round(int(sz) / 100, 1), in tenths of a point (sz is a multiple of 10)
SizeOf(sz) == IF sz # NoSize THEN sz \div 10 ELSE NoSize

\* b == "1" or b.lower() == "true"
BoldOf(b) == IF b = None THEN None ELSE PyBool(b \in {"1", "true", "True", "TRUE"})

\* the color of a <a:solidFill>: srgbClr first, schemeClr otherwise
ColorOf(el) ==
    IF el.srgb # None THEN Hex(el.srgb)
    ELSE IF el.schm # None THEN Scheme(el.schm)
    ELSE NoColor

\* _parse_rpr_xml(el)
parse_rpr_xml(el) ==
    [name |-> Typeface(el.latin), ea_name |-> Typeface(el.ea), size |-> SizeOf(el.sz),
     bold |-> BoldOf(el.b), color |-> ColorOf(el)]

FontKeys == <<"name", "ea_name", "size", "bold", "color", "align">>
StyleKeys == {"name", "ea_name", "size", "bold", "color"}

\* v is None, for the key k of a font dict
IsNone(k, v) ==
    CASE k = "size" -> v = NoSize
      [] k = "color" -> v = NoColor
      [] OTHER -> v = None

NoneOf(k) == CASE k = "size" -> NoSize [] k = "color" -> NoColor [] OTHER -> None

EmptyFont == [name |-> None, ea_name |-> None, size |-> NoSize, bold |-> None,
              color |-> NoColor, align |-> None]

\* a merge in which a later source replaces the value of an earlier one
FirstWins_lastWins(result, parsed) ==
    [k \in DOMAIN result |->
        IF k \in DOMAIN parsed /\ ~IsNone(k, parsed[k])
        THEN parsed[k] ELSE result[k]]

\* for k, v in parsed.items(): if v is not None and result.get(k) is None: result[k] = v
FirstWins(result, parsed) ==
    [k \in DOMAIN result |->
        IF k \in DOMAIN parsed /\ ~IsNone(k, parsed[k]) /\ IsNone(k, result[k])
        THEN parsed[k] ELSE result[k]]

\* align_map.get(algn, algn)
AlignName(algn) ==
    CASE algn = "l" -> "LEFT" [] algn = "ctr" -> "CENTER" [] algn = "r" -> "RIGHT"
      [] algn = "just" -> "JUSTIFY" [] OTHER -> algn

\* the pPr part of one paragraph of _extract_placeholder_xml_font
VisitPPr(result, p) ==
    LET i == Find(p, "pPr")
        aligned == IF i # 0 /\ p[i].algn # None /\ p[i].algn # "" /\ result.align = None
                   THEN [result EXCEPT !.align = AlignName(p[i].algn)]
                   ELSE result
    IN  IF i # 0 /\ p[i].rpr.has THEN FirstWins(aligned, parse_rpr_xml(p[i].rpr))
        ELSE aligned

\* the endParaRPr part
VisitEnd(result, p) ==
    LET i == Find(p, "endParaRPr")
    IN  IF i # 0 THEN FirstWins(result, parse_rpr_xml(p[i].rpr)) ELSE result

\* for r_el in p_el.findall(a:r): the runs from child i on
RECURSIVE VisitRuns(_, _, _)
VisitRuns(result, p, i) ==
    IF i > Len(p) THEN result
    ELSE IF p[i].tag = "r" /\ p[i].rpr.has
         THEN VisitRuns(FirstWins(result, parse_rpr_xml(p[i].rpr)), p, i + 1)
         ELSE VisitRuns(result, p, i + 1)

\* for p_el in txBody.findall(a:p): the paragraphs from j on
RECURSIVE VisitParagraphs(_, _, _)
VisitParagraphs(result, body, j) ==
    IF j > Len(body) THEN result
    ELSE VisitParagraphs(
            VisitRuns(VisitEnd(VisitPPr(result, body[j]), body[j]), body[j], 1),
            body, j + 1)

\* _extract_placeholder_xml_font(ph)
extract_placeholder_xml_font(p) == VisitParagraphs(EmptyFont, p.body, 1)

\* A master text style that _extract_master_text_styles did not return
AbsentStyle == [present |-> FALSE, name |-> None, ea_name |-> None, size |-> NoSize,
                bold |-> None, color |-> NoColor, made_from |-> << >>]

\* A master text style it returned; made_from is the markup it was read from,
\* the lvl1pPr element and its defRPr
StyleInfo(name, ea_name, size, bold, color, made_from) ==
    [present |-> TRUE, name |-> name, ea_name |-> ea_name, size |-> size,
     bold |-> bold, color |-> color, made_from |-> made_from]

\* _extract_master_text_styles, one style: info = _parse_rpr_xml(lvl1), then
\* for k, v in _parse_rpr_xml(defRPr).items(): if v is not None: info[k] = v
extract_master_text_style(lvl1, defRPr) ==
    LET info == parse_rpr_xml(lvl1)
        sub == parse_rpr_xml(defRPr)
        merged == [k \in StyleKeys |->
                      IF defRPr.has /\ ~IsNone(k, sub[k]) THEN sub[k] ELSE info[k]]
    IN  StyleInfo(merged.name, merged.ea_name, merged.size, merged.bold, merged.color,
                  <<lvl1, defRPr>>)

\* if master_styles: if is_title and "titleStyle" in master_styles: ...
\*                   elif "bodyStyle" in master_styles: ...
CascadeStyle(is_title, ms) ==
    IF ms.titleStyle.present \/ ms.bodyStyle.present
    THEN IF is_title /\ ms.titleStyle.present THEN ms.titleStyle
         ELSE IF ms.bodyStyle.present THEN ms.bodyStyle
         ELSE AbsentStyle
    ELSE AbsentStyle

\* the theme font base: merged["name"], merged["ea_name"]
ThemeBase(is_title, tf) ==
    LET base_font == IF is_title THEN tf.major_latin ELSE tf.minor_latin
        ea_font == IF is_title THEN tf.major_ea ELSE tf.minor_ea
    IN  [EmptyFont EXCEPT
            !.name = IF base_font # None /\ base_font # "" THEN base_font ELSE None,
            !.ea_name = IF ea_font # None /\ ea_font # "" THEN ea_font ELSE None]

\* for k in keys: if layer.get(k) is not None: merged[k] = layer[k]
Overlay(merged, layer, keys) ==
    [k \in DOMAIN merged |->
        IF k \in keys /\ k \in DOMAIN layer /\ ~IsNone(k, layer[k])
        THEN layer[k] ELSE merged[k]]

\* theme_colors.get(key)
TcGet(tc, key) == IF key \in DOMAIN tc THEN tc[key] ELSE None

SchemeAliases == [k \in {"tx1", "tx2", "bg1", "bg2"} |->
                    CASE k = "tx1" -> "dk1" [] k = "tx2" -> "dk2"
                      [] k = "bg1" -> "lt1" [] k = "bg2" -> "lt2"]

\* a lookup that knows no alias
AliasOf_none(key) == ""

\* _SCHEME_ALIASES.get(scheme_key, "")
AliasOf(key) == IF key \in DOMAIN SchemeAliases THEN SchemeAliases[key] ELSE ""

\* a resolution that keeps the symbolic string when no slot matches
ResolveScheme_kept(tc, scheme_key) ==
    LET direct == TcGet(tc, scheme_key)
        found == IF direct # None /\ direct # "" THEN direct ELSE TcGet(tc, AliasOf(scheme_key))
    IN  IF found = None THEN Scheme(scheme_key) ELSE Hex(found)

\* theme_colors.get(scheme_key) or theme_colors.get(_SCHEME_ALIASES.get(scheme_key, ""))
ResolveScheme(tc, scheme_key) ==
    LET direct == TcGet(tc, scheme_key)
        found == IF direct # None /\ direct # "" THEN direct ELSE TcGet(tc, AliasOf(scheme_key))
    IN  IF found = None THEN NoColor ELSE Hex(found)

\* merged["color"] after the scheme-color step
ResolveColor(color, tc) ==
    IF color.kind = "scheme" THEN ResolveScheme(tc, color.val) ELSE color

\* a provenance flag that is set whenever the resolved font has a color
ColorFound_always(xml_font) == TRUE

\* xml_color_found = bool(xml_font.get("color"))
ColorFound(xml_font) == xml_font.color # NoColor

\* _extract_placeholder_detail(ph, master_styles, theme_fonts, theme_colors):
\* the locals xml_font, is_title, cascade_style and merged (before the
\* scheme-color step) and
\* the dict d["font"], whose color_from_xml is None when the key is absent
extract_placeholder_detail(p, ms, tf, tc) ==
    LET xml_font == extract_placeholder_xml_font(p)
        is_title == p.ph_type \in TitlePhTypes \/ p.idx = 0
        cascade_style == CascadeStyle(is_title, ms)
        base == ThemeBase(is_title, tf)
        styled == IF cascade_style.present THEN Overlay(base, cascade_style, StyleKeys)
                  ELSE base
        merged == Overlay(styled, xml_font, StyleKeys \cup {"align"})
        color == ResolveColor(merged.color, tc)
    IN  [xml_font |-> xml_font,
         is_title |-> is_title,
         cascade_style |-> cascade_style,
         merged |-> merged,
         font |-> [name |-> merged.name, ea_name |-> merged.ea_name,
                   size |-> merged.size, bold |-> merged.bold, color |-> color,
                   align |-> merged.align,
                   color_from_xml |-> IF color # NoColor THEN PyBool(ColorFound(xml_font))
                                      ELSE None]]

(***************************************************************************)
(* The cascade on one placeholder.  Each step is one call of               *)
(* _extract_placeholder_detail, on arguments that differ from those of the *)
(* call before in one place: the placeholder's own markup, a master text   *)
(* style, a theme font or a theme color.                                    *)
(***************************************************************************)
MaxEdits == 3       \* what the template holds: nodes, styles, theme entries

PhKinds == { [ph_type |-> "CENTER_TITLE", idx |-> 3], [ph_type |-> "SUBTITLE", idx |-> 0],
             [ph_type |-> "BODY", idx |-> 1], [ph_type |-> "FOOTER", idx |-> 11] }

\* the children a template author puts in a paragraph: any two sources of the
\* same attribute give different values
StyleNodes == { PPrNode("ctr", RPr("Arial", "Meiryo", NoSize, None, None, None)),
                PPrNode("l", RPr(None, None, NoSize, None, "FF0000", None)),
                PPrNode("just", NoRPr),
                EndNode(RPr(None, None, 1800, "0", None, None)),
                EndNode(RPr(None, None, NoSize, None, None, "tx1")),
                RunNode(RPr("+mn-lt", None, NoSize, "1", None, None), "x"),
                RunNode(RPr(None, None, NoSize, None, None, "zz"), "x"),
                RunNode(RPr("Courier", None, 2400, None, "0000FF", None), "x") }

\* the defRPr of the lvl1pPr of a master text style
MasterDefRPrs == { RPr("Calibri", "SimSun", NoSize, None, None, None),
                   RPr(None, None, 2400, "1", None, None),
                   RPr(None, None, NoSize, "0", "00FF00", None),
                   RPr(None, None, NoSize, None, None, "accent1"),
                   RPr(None, None, NoSize, None, None, "bg1"),
                   RPr("+mj-lt", "+mj-ea", 4400, None, None, None) }

\* an lvl1pPr element: it is there, and read as run properties it has nothing
Lvl1pPr == RPr(None, None, NoSize, None, None, None)

MasterInfos == { extract_master_text_style(Lvl1pPr, defRPr) : defRPr \in MasterDefRPrs }

StyleNames == {"titleStyle", "bodyStyle"}

ThemeFontOf == [major_latin |-> "Cambria", major_ea |-> "MS Mincho",
                minor_latin |-> "Georgia", minor_ea |-> "Yu Gothic"]

ThemeColorOf == [dk1 |-> "000000", lt1 |-> "FFFFFF", accent1 |-> "4472C4"]

\* the theme colors with the slot k set to v
TcWith(tc, k, v) == [x \in DOMAIN tc \cup {k} |-> IF x = k THEN v ELSE tc[x]]
\* the theme colors without the slot k
TcWithout(tc, k) == [x \in DOMAIN tc \ {k} |-> tc[x]]

EditCount(p, ms, tf, tc) ==
    (Len(p.body) - 1) + NodeCount(p.body)
    + Cardinality({ sn \in StyleNames : ms[sn].present })
    + Cardinality({ k \in DOMAIN tf : tf[k] # None })
    + Cardinality(DOMAIN tc)

\* one call of _extract_placeholder_detail on these arguments
Scan(p, ms, tf, tc) ==
    /\ EditCount(p, ms, tf, tc) <= MaxEdits
    /\ ph' = p
    /\ master_styles' = ms
    /\ theme_fonts' = tf
    /\ theme_colors' = tc
    /\ detail' = extract_placeholder_detail(p, ms, tf, tc)
    /\ cls' = classify_placeholder(p)
    /\ UNCHANGED <<injVars, catVars, genVars, storeVars>>

InitStyle ==
    /\ InjectIdle
    /\ CatalogIdle
    /\ GenIdle
    /\ StoreIdle
    /\ \E k \in PhKinds : ph = [ph_type |-> k.ph_type, idx |-> k.idx, body |-> << << >> >>]
    /\ master_styles = [titleStyle |-> AbsentStyle, bodyStyle |-> AbsentStyle]
    /\ theme_fonts = [major_latin |-> None, major_ea |-> None,
                      minor_latin |-> None, minor_ea |-> None]
    /\ theme_colors = << >>
    /\ detail = extract_placeholder_detail(ph, master_styles, theme_fonts, theme_colors)
    /\ cls = classify_placeholder(ph)

\* the placeholder's text body gets one more paragraph
ScanNewParagraph ==
    Scan([ph EXCEPT !.body = Append(@, << >>)], master_styles, theme_fonts, theme_colors)

\* the placeholder's last paragraph gets one more child
ScanNewNode ==
    \E n \in StyleNodes :
        Scan([ph EXCEPT !.body[Len(ph.body)] = Append(@, n)],
             master_styles, theme_fonts, theme_colors)

\* the master defines, redefines or drops a text style
ScanMasterStyle ==
    \E sn \in StyleNames, info \in MasterInfos \cup {AbsentStyle} :
        /\ master_styles[sn] # info
        /\ Scan(ph, [master_styles EXCEPT ![sn] = info], theme_fonts, theme_colors)

\* the theme defines or drops a font
ScanThemeFont ==
    \E k \in DOMAIN ThemeFontOf : \E v \in {ThemeFontOf[k], None} :
        /\ theme_fonts[k] # v
        /\ Scan(ph, master_styles, [theme_fonts EXCEPT ![k] = v], theme_colors)

\* the theme defines a color slot
ScanThemeColor ==
    \E k \in DOMAIN ThemeColorOf :
        /\ k \notin DOMAIN theme_colors
        /\ Scan(ph, master_styles, theme_fonts, TcWith(theme_colors, k, ThemeColorOf[k]))

\* the theme drops a color slot
ScanThemeColorDropped ==
    \E k \in DOMAIN theme_colors :
        Scan(ph, master_styles, theme_fonts, TcWithout(theme_colors, k))

NextStyle ==
    \/ ScanNewParagraph
    \/ ScanNewNode
    \/ ScanMasterStyle
    \/ ScanThemeFont
    \/ ScanThemeColor
    \/ ScanThemeColorDropped

SpecStyle == InitStyle /\ [][NextStyle]_vars

(***************************************************************************)
(* Properties of the cascade.                                              *)
(***************************************************************************)
\* the flag of the last scan tells whether the override supplied the color
FlagTellsOverride ==
    detail.font.color # NoColor =>
        (detail.font.color_from_xml = PyTrue <=> detail.xml_font.color # NoColor)

\* a scan of the same markup never turns a false flag into a true one
FlagNeverFlips ==
    (ph' = ph /\ detail.font.color_from_xml = PyFalse)
        => detail'.font.color_from_xml # PyTrue

\* C1: wherever the resolved font has a color, color_from_xml is true iff the
\* placeholder's own override supplies a color; and with the placeholder's
\* markup unchanged, a change of the master text styles, the theme fonts or the
\* theme colors never turns the flag from false to true.
C1_ColorProvenance == [](FlagTellsOverride) /\ [][FlagNeverFlips]_vars

\* C1's case: the override's scheme color is resolved through the theme while
\* the master style of the placeholder's class has a color of its own
C1_Witness ==
    /\ detail.xml_font.color = Scheme("tx1")
    /\ CascadeStyle(detail.is_title, master_styles).color # NoColor
    /\ detail.font.color = Hex("000000")
    /\ detail.font.color_from_xml = PyTrue

\* the theme default of the key k: the major pair for a title, the minor otherwise
ThemeDefault(k, is_title, tf) ==
    CASE k = "name" -> IF is_title THEN tf.major_latin ELSE tf.minor_latin
      [] k = "ea_name" -> IF is_title THEN tf.major_ea ELSE tf.minor_ea
      [] OTHER -> NoneOf(k)

\* the master text style of the placeholder's class
ClassStyle(is_title, ms) == IF is_title THEN ms.titleStyle ELSE ms.bodyStyle

\* what the three layers give for the key k: the override if present, else the
\* class's master style if present, else the theme default
Precedence(k, xml_font, style, is_title, tf) ==
    IF ~IsNone(k, xml_font[k]) THEN xml_font[k]
    ELSE IF style.present /\ ~IsNone(k, style[k]) THEN style[k]
    ELSE ThemeDefault(k, is_title, tf)

IsTitleRole(p) == p.ph_type \in TitlePhTypes \/ p.idx = 0

\* C2 as claimed: for name, ea_name, size, bold and color the merged value is
\* the override's value if present, otherwise the value of the master text
\* style of the placeholder's class if present, otherwise the theme default
\* (major pair for a title-role placeholder, minor otherwise), otherwise absent.
C2_CascadePrecedence ==
    \A k \in StyleKeys :
        detail.merged[k] =
            Precedence(k, detail.xml_font, ClassStyle(IsTitleRole(ph), master_styles),
                       IsTitleRole(ph), theme_fonts)

\* ---------------------------------------------------------------------------
\* The layout catalog: deep_scan builds it from a document, scan_builtins
\* merges its two lists, _resolve_layout_from_schema reads it back.
\* A document is a sequence of masters, a master the sequence of its layouts;
\* the layout object at master m, position l (both from 0) is named <<m, l>>.

Layout(name, type, placeholders) ==
    [name |-> name, type |-> type, placeholders |-> placeholders]
Ph(ph_type, idx) == [ph_type |-> ph_type, idx |-> idx]

\* str.lower() on the names and type attributes that occur
Lower(s) ==
    CASE s = "Title Slide" -> "title slide"
      [] s = "TITLE SLIDE" -> "title slide"
      [] s = "Title and Content" -> "title and content"
      [] s = "Two Content" -> "two content"
      [] s = "Content with Caption" -> "content with caption"
      [] s = "Custom" -> "custom"
      [] s = "twoObj" -> "twoobj"
      [] s = "objTx" -> "objtx"
      [] OTHER -> s

\* k in s, for the keywords deep_scan looks for in a lowercased name
In(k, s) ==
    k \in (CASE s = "title and content" -> {"title and content", "content"}
             [] s = "two content" -> {"two content", "two ", "two", "content"}
             [] s = "content with caption" -> {"content", "caption"}
             [] OTHER -> {})

StartsWithTwo(t) == t \in {"twoobj", "twotxtwoobj"}

\* prs.slide_layouts: the layouts of the first master
slide_layouts(doc) == doc[1]

\* a list that keeps the fixed placeholders too
content_placeholders_all(phs) == phs

\* the placeholders of a layout that are not fixed, in document order
RECURSIVE content_placeholders(_)
content_placeholders(phs) ==
    IF phs = << >> THEN << >>
    ELSE IF classify_placeholder(Head(phs)) = "fixed"
         THEN content_placeholders(Tail(phs))
         ELSE <<Head(phs)>> \o content_placeholders(Tail(phs))

\* the entry deep_scan makes for the layout at position li of the walk; the
\* keys master_index and local_layout_index are sequences, empty when the
\* entry has no such key; made_from names the layout object the entry
\* was made from
layout_info(li, layout) ==
    [layout_index |-> li,
     name |-> layout.name,
     pptx_layout |-> IF layout.type = None \/ layout.type = "" THEN None ELSE layout.type,
     placeholders |-> content_placeholders(layout.placeholders),
     master_index |-> << >>,
     local_layout_index |-> << >>,
     made_from |-> <<0, li>>]

\* for li, layout in enumerate(prs.slide_layouts)
all_layouts(doc) ==
    [i \in 1..Len(slide_layouts(doc)) |-> layout_info(i - 1, slide_layouts(doc)[i])]

\* any("two" in m["name"].lower()
\*     or m.get("pptx_layout", "").lower().startswith("two") for m in main_layouts):
\* the key pptx_layout is always there, so a None value reaches .lower() and
\* raises AttributeError
RECURSIVE AnyTwo(_, _)
AnyTwo(main, j) ==
    IF j > Len(main) THEN "False"
    ELSE IF In("two", Lower(main[j].name)) THEN "True"
    ELSE IF main[j].pptx_layout = None THEN "raise"
    ELSE IF StartsWithTwo(Lower(main[j].pptx_layout)) THEN "True"
    ELSE AnyTwo(main, j + 1)

\* any(m.get("pptx_layout", "").lower() in ("obj", "object")
\*     or "content" in m["name"].lower()
\*     for m in main_layouts if m["layout_index"] != 0)
RECURSIVE AnyContent(_, _)
AnyContent(main, j) ==
    IF j > Len(main) THEN "False"
    ELSE IF main[j].layout_index = 0 THEN AnyContent(main, j + 1)
    ELSE IF main[j].pptx_layout = None THEN "raise"
    ELSE IF Lower(main[j].pptx_layout) \in {"obj", "object"}
            \/ In("content", Lower(main[j].name)) THEN "True"
    ELSE AnyContent(main, j + 1)

\* not any(...): "raise" stays "raise"
NotAny(r) == IF r = "raise" THEN "raise" ELSE IF r = "True" THEN "False" ELSE "True"

\* is_main of the split loop: "True", "False", or "raise"
is_main(lo, main) ==
    LET name_lower == Lower(lo.name)
        pptx_type == IF lo.pptx_layout = None THEN "" ELSE Lower(lo.pptx_layout)
    IN  IF lo.layout_index = 0 THEN "True"
        ELSE IF pptx_type \in {"twoobj", "twotxtwoobj"}
                \/ \E k \in {"two content", "two objects", "two_objects", "two "} :
                       In(k, name_lower)
             THEN NotAny(AnyTwo(main, 1))
        ELSE IF pptx_type \in {"obj", "object"}
                \/ \E k \in {"title and content", "content", "object"} : In(k, name_lower)
             THEN IF In("caption", name_lower) THEN "False"
                  ELSE NotAny(AnyContent(main, 1))
        ELSE "False"

\* the most layouts the main list takes
MainLimit == 3

\* if is_main and len(main_layouts) < 3: main_layouts.append(lo)
\* else: additional_layouts.append(extra)
SplitAppend_both(acc, lo, m) ==
    [acc EXCEPT !.main = Append(@, lo), !.additional = Append(@, lo)]
SplitAppend(acc, lo, m) ==
    IF m = "True" /\ Len(acc.main) < MainLimit
    THEN [acc EXCEPT !.main = Append(@, lo)]
    ELSE [acc EXCEPT !.additional = Append(@, lo)]

\* for lo in all_layouts: ...; an exception ends the scan
RECURSIVE SplitLoop(_, _, _)
SplitLoop(all, i, acc) ==
    IF i > Len(all) THEN acc
    ELSE LET m == is_main(all[i], acc.main)
         IN  IF m = "raise" THEN [acc EXCEPT !.raised = TRUE]
             ELSE SplitLoop(all, i + 1, SplitAppend(acc, all[i], m))

\* deep_scan: master_profile.layouts is main, master_structure.additional_layouts
\* is additional; raised when the scan ends in an exception (a document
\* without masters has no prs.slide_layouts)
deep_scan(doc) ==
    IF Len(doc) = 0
    THEN [main |-> << >>, additional |-> << >>, raised |-> TRUE]
    ELSE SplitLoop(all_layouts(doc), 1, [main |-> << >>, additional |-> << >>, raised |-> FALSE])

\* list.sort(key=lambda l: l["layout_index"]), a stable sort
RECURSIVE SortByIndex(_)
SortInsert(e, sorted) ==
    LET k == Cardinality({j \in 1..Len(sorted) : sorted[j].layout_index <= e.layout_index})
    IN  SubSeq(sorted, 1, k) \o <<e>> \o SubSeq(sorted, k + 1, Len(sorted))
SortByIndex(s) ==
    IF s = << >> THEN << >>
    ELSE SortInsert(s[Len(s)], SortByIndex(SubSeq(s, 1, Len(s) - 1)))

\* scan_builtins: merged = profile layouts + additional layouts, sorted
merged_layouts(scan) == SortByIndex(scan.main \o scan.additional)

\* seq[i] of Python: i from -len to len - 1, negative from the end; anything
\* else raises IndexError
IndexOk(seq, i) == -Len(seq) <= i /\ i < Len(seq)
At(seq, i) == IF i < 0 THEN Len(seq) + i + 1 ELSE i + 1

\* next((lo for lo in schema_layouts if lo.get("layout_index") == layout_index), None):
\* the sequence of that one entry, empty for None
EntryFor(layouts, layout_index) ==
    LET hits == {j \in 1..Len(layouts) : layouts[j].layout_index = layout_index}
    IN  IF hits = {} THEN << >>
        ELSE <<layouts[CHOOSE j \in hits : \A h \in hits : j <= h]>>

\* entry and "master_index" in entry and "local_layout_index" in entry
HasPair(entry) ==
    /\ entry # << >>
    /\ entry[1].master_index # << >>
    /\ entry[1].local_layout_index # << >>

\* prs.slide_masters[mi].slide_layouts[li] does not raise IndexError
PairOk(doc, mi, li) == IndexOk(doc, mi) /\ IndexOk(doc[At(doc, mi)], li)

Found(m, l) == [raised |-> FALSE, layout |-> <<m, l>>]
IndexError == [raised |-> TRUE, layout |-> << >>]

\* the layout objects in the order of the linear count: master by master
RECURSIVE LinearOrder(_, _)
LinearOrder(doc, m) ==
    IF m > Len(doc) THEN << >>
    ELSE [l \in 1..Len(doc[m]) |-> <<m - 1, l - 1>>] \o LinearOrder(doc, m + 1)

\* count = 0; for master ...: for layout ...: if count == layout_index: return layout
\* and after the loops prs.slide_masters[0].slide_layouts[0]
LinearLookup_fromOne(doc, layout_index) ==
    LET all == LinearOrder(doc, 1)
    IN  IF 1 <= layout_index /\ layout_index <= Len(all)
        THEN Found(all[layout_index][1], all[layout_index][2])
        ELSE IF Len(doc) = 0 \/ Len(doc[1]) = 0 THEN IndexError
        ELSE Found(0, 0)
LinearLookup(doc, layout_index) ==
    LET all == LinearOrder(doc, 1)
    IN  IF 0 <= layout_index /\ layout_index < Len(all)
        THEN Found(all[layout_index + 1][1], all[layout_index + 1][2])
        ELSE IF Len(doc) = 0 \/ Len(doc[1]) = 0 THEN IndexError
        ELSE Found(0, 0)

\* return prs.slide_masters[mi].slide_layouts[li]
StoredLookup_swapped(doc, mi, li) ==
    Found(At(doc, li) - 1, At(doc, mi) - 1)
StoredLookup(doc, mi, li) ==
    Found(At(doc, mi) - 1, At(doc[At(doc, mi)], li) - 1)

resolve_layout_from_schema(doc, layouts, layout_index) ==
    LET entry == EntryFor(layouts, layout_index)
    IN  IF HasPair(entry)
           /\ PairOk(doc, entry[1].master_index[1], entry[1].local_layout_index[1])
        THEN StoredLookup(doc, entry[1].master_index[1], entry[1].local_layout_index[1])
        ELSE LinearLookup(doc, layout_index)

\* ---------------------------------------------------------------------------
\* SpecCatalog: a template author assembles a document, scan_builtins builds
\* its catalog, and generation resolves layout indexes against it.

MaxMasters == 2
MaxLayouts == 3

\* the layouts an author chooses from: names and type attributes that drive
\* the main/additional split, one layout without a type attribute, and two
\* layouts that differ only in the case of the name and the order of their
\* placeholders
LayoutKinds ==
    { Layout("Title Slide", "title", <<Ph("CENTER_TITLE", 0), Ph("SUBTITLE", 1)>>),
      Layout("TITLE SLIDE", "title", <<Ph("SUBTITLE", 1), Ph("CENTER_TITLE", 0)>>),
      Layout("Title and Content", "obj",
             <<Ph("TITLE", 0), Ph("OBJECT", 1), Ph("FOOTER", 11)>>),
      Layout("Two Content", "twoObj", <<Ph("TITLE", 0), Ph("OBJECT", 1), Ph("OBJECT", 2)>>),
      Layout("Content with Caption", "objTx", <<Ph("TITLE", 0), Ph("BODY", 1)>>),
      Layout("Custom", None, <<Ph("PICTURE", 13)>>) }

RECURSIVE LayoutCount(_)
LayoutCount(doc) ==
    IF doc = << >> THEN 0 ELSE Len(Head(doc)) + LayoutCount(Tail(doc))

\* layout indexes a slide spec may ask for: in and out of any document's range
LayoutIndexes == -1..MaxLayouts

InitCatalog ==
    /\ InjectIdle
    /\ StyleIdle
    /\ CatalogIdle
    /\ GenIdle
    /\ StoreIdle

\* the author adds a master to the document, once the master before has a layout
AddMaster ==
    /\ built = "none"
    /\ Len(prs) < MaxMasters
    /\ IF prs = << >> THEN TRUE ELSE prs[Len(prs)] # << >>
    /\ prs' = Append(prs, << >>)
    /\ UNCHANGED <<schema_layouts, built, resolved, injVars, styleVars, genVars, storeVars>>

\* the author adds a layout to the last master
AddLayoutOf(kinds) ==
    /\ built = "none"
    /\ Len(prs) > 0
    /\ LayoutCount(prs) < MaxLayouts
    /\ \E k \in kinds : prs' = [prs EXCEPT ![Len(prs)] = Append(@, k)]
    /\ UNCHANGED <<schema_layouts, built, resolved, injVars, styleVars, genVars, storeVars>>

AddLayout == AddLayoutOf(LayoutKinds)

\* scan_builtins on the document: deep_scan, then the merged and sorted list;
\* an exception of deep_scan is reported and no catalog is written
ScanBuiltins ==
    /\ built = "none"
    /\ LET scan == deep_scan(prs)
       IN  IF scan.raised
           THEN /\ built' = "raised"
                /\ UNCHANGED schema_layouts
           ELSE /\ built' = "scanned"
                /\ schema_layouts' = merged_layouts(scan)
    /\ UNCHANGED <<prs, resolved, injVars, styleVars, genVars, storeVars>>

\* generation asks for the layout of one layout index
ResolveLayout ==
    /\ built \in {"scanned", "imported"}
    /\ ~resolved.called
    /\ \E i \in LayoutIndexes :
        LET r == resolve_layout_from_schema(prs, schema_layouts, i)
        IN  resolved' = [called |-> TRUE, layout_index |-> i,
                         raised |-> r.raised, layout |-> r.layout]
    /\ UNCHANGED <<prs, schema_layouts, built, injVars, styleVars, genVars, storeVars>>

NextCatalog == AddMaster \/ AddLayout \/ ScanBuiltins \/ ResolveLayout

SpecCatalog == InitCatalog /\ [][NextCatalog]_vars

\* ---------------------------------------------------------------------------
\* SpecResolve: the catalog is a hand-made schema saved by import_schema, and
\* generation resolves layout indexes against it.

\* an entry of an imported schema: pair is << >> or <<master_index, local_layout_index>>
ImportedEntry(i, pair) ==
    [layout_index |-> i,
     name |-> "Imported",
     pptx_layout |-> None,
     placeholders |-> << >>,
     master_index |-> IF pair = << >> THEN << >> ELSE <<pair[1]>>,
     local_layout_index |-> IF pair = << >> THEN << >> ELSE <<pair[2]>>,
     made_from |-> << >>]

\* an entry with one of the two keys only
HalfEntry(i, mi) == [ImportedEntry(i, << >>) EXCEPT !.master_index = <<mi>>]

\* stored pairs: inside and outside the range of any document
StoredPairs == {<<mi, li>> : mi \in -1..MaxMasters, li \in -1..MaxLayouts}

ImportedEntries ==
    {ImportedEntry(i, pair) : i \in 0..1, pair \in StoredPairs \cup {<< >>}}
        \cup {HalfEntry(0, 1)}

\* the schemas a user imports: no entry, one entry, or two entries of which
\* the second repeats index 0 or has index 1 and no pair
ImportedSchemas ==
    {<< >>} \cup {<<e>> : e \in ImportedEntries}
        \cup {<<e, f>> : e \in ImportedEntries,
                         f \in {ImportedEntry(0, <<0, 0>>), ImportedEntry(1, << >>)}}

\* import_schema: the layouts of the uploaded schema are saved as they are
ImportSchema ==
    /\ built = "none"
    /\ \E layouts \in ImportedSchemas : schema_layouts' = layouts
    /\ built' = "imported"
    /\ UNCHANGED <<prs, resolved, injVars, styleVars, genVars, storeVars>>

\* the author adds a layout; its content plays no part in resolution
AddPlainLayout ==
    AddLayoutOf({Layout("Title Slide", "title", <<Ph("CENTER_TITLE", 0), Ph("SUBTITLE", 1)>>)})

NextResolve == AddMaster \/ AddPlainLayout \/ ImportSchema \/ ResolveLayout

SpecResolve == InitCatalog /\ [][NextResolve]_vars

\* ---------------------------------------------------------------------------
\* Properties of the catalog and the resolver

\* the layout objects of a document
Positions(doc) ==
    UNION {{<<m - 1, l - 1>> : l \in 1..Len(doc[m])} : m \in 1..Len(doc)}
LayoutAt(doc, p) == doc[p[1] + 1][p[2] + 1]

\* p is met before q in master-then-local order
Before(p, q) == p[1] < q[1] \/ (p[1] = q[1] /\ p[2] < q[2])

\* the place of p in the linear count across all masters, from 0
LinearPosition(doc, p) == Cardinality({q \in Positions(doc) : Before(q, p)})

\* the (slot id, role) pairs of a layout with their multiplicities: equal for
\* two layouts exactly when their sorted sequences of pairs are equal
SlotRoles(layout) ==
    LET phs == layout.placeholders
        pair(j) == <<phs[j].idx, classify_placeholder(phs[j])>>
    IN  [x \in {pair(j) : j \in 1..Len(phs)} |->
            Cardinality({j \in 1..Len(phs) : pair(j) = x})]

Signature(layout) == <<Lower(layout.name), SlotRoles(layout)>>

SameSignature(doc, p, q) == Signature(LayoutAt(doc, p)) = Signature(LayoutAt(doc, q))

\* the catalog has an entry made from the layout object p
HasEntry(p) == \E j \in 1..Len(schema_layouts) : schema_layouts[j].made_from = p

\* the entry the last call of the resolver found for its index, << >> if none
ResolvedEntry == EntryFor(schema_layouts, resolved.layout_index)

\* the stored pair of an entry is in the range of the document
PairInRange(e) ==
    /\ 0 <= e.master_index[1] /\ e.master_index[1] < Len(prs)
    /\ 0 <= e.local_layout_index[1]
    /\ e.local_layout_index[1] < Len(prs[e.master_index[1] + 1])

\* C6: when the entry for the requested index carries a master_index and a
\* local_layout_index that are both in range for the document, the resolver
\* returns the layout at that local index of that master, wherever that layout
\* is in the linear count and whatever the requested index is.
C6_StoredPairUsed ==
    (resolved.called /\ HasPair(ResolvedEntry) /\ PairInRange(ResolvedEntry[1]))
        => /\ ~resolved.raised
           /\ resolved.layout = <<ResolvedEntry[1].master_index[1],
                                  ResolvedEntry[1].local_layout_index[1]>>

\* a call whose stored pair is in range and names another layout than the
\* linear count of the requested index does
C6_Witness ==
    /\ resolved.called
    /\ built = "imported"
    /\ HasPair(ResolvedEntry)
    /\ PairInRange(ResolvedEntry[1])
    /\ resolved.layout = <<ResolvedEntry[1].master_index[1],
                           ResolvedEntry[1].local_layout_index[1]>>
    /\ LinearPosition(prs, resolved.layout) # resolved.layout_index
    /\ resolved.layout[1] = 1

\* C7: when the catalog is built, of two layouts with the same display name
\* (case-insensitively) and the same sorted sequence of (slot id, role) pairs
\* only the one met first in master-then-local order has a catalog entry.
C7_Deduplication ==
    built = "scanned" =>
        \A p \in Positions(prs), q \in Positions(prs) :
            (Before(p, q) /\ SameSignature(prs, p, q)) => ~HasEntry(q)

\* C8: the catalog build visits every layout of every master: each layout of
\* the document that is not a duplicate of an earlier one has a catalog entry.
C8_EveryMasterEnumerated ==
    built = "scanned" =>
        \A p \in Positions(prs) :
            (\A q \in Positions(prs) : ~(Before(q, p) /\ SameSignature(prs, q, p)))
                => HasEntry(p)

\* C9: in the catalog of one build, the main layouts plus the additional
\* layouts merged and sorted by layout_index, every scanned layout appears
\* exactly once, no layout is in both lists, and the layout_index values are
\* exactly 0..N-1 without gap or repeat.
C9_DenseIndices ==
    built = "scanned" =>
        LET scan == deep_scan(prs)
            N == Len(schema_layouts)
        IN  /\ N = Len(slide_layouts(prs))
            /\ \A l \in 0..N - 1 :
                   Cardinality({j \in 1..N : schema_layouts[j].made_from = <<0, l>>}) = 1
            /\ \A a \in 1..Len(scan.main), b \in 1..Len(scan.additional) :
                   scan.main[a].made_from # scan.additional[b].made_from
            /\ \A j \in 1..N : schema_layouts[j].layout_index = j - 1

\* a build that fills both lists
C9_Witness ==
    /\ built = "scanned"
    /\ Len(schema_layouts) = MaxLayouts
    /\ Len(deep_scan(prs).main) > 1
    /\ Len(deep_scan(prs).additional) > 0

\* C10: for every entry of a catalog built from a document, resolving the
\* entry's layout_index against the same catalog and the same document returns
\* the layout the entry was made from.
C10_BuildThenResolve ==
    (resolved.called /\ built = "scanned" /\ ResolvedEntry # << >>)
        => /\ ~resolved.raised
           /\ resolved.layout = ResolvedEntry[1].made_from

\* a round trip for an entry other than the first, in a document of two masters
C10_Witness ==
    /\ resolved.called
    /\ built = "scanned"
    /\ ResolvedEntry # << >>
    /\ resolved.layout_index > 0
    /\ Len(prs) > 1
    /\ resolved.layout = ResolvedEntry[1].made_from

\* ---------------------------------------------------------------------------
\* app.py, create_pptx_from_json (create_pptx_from_profile has the same loop):
\* for each slide spec the layout is resolved, a slide is added, and the
\* placeholders the spec names are filled.

\* a placeholder entry and a slide spec of the request; id and idx of an entry
\* and the title of a spec are the sequence of the one value, empty when the
\* key is absent
PhEntry(id, idx, content, type) ==
    [id |-> id, idx |-> idx, content |-> content, type |-> type]
PhData(id, content, type) == PhEntry(<<id>>, << >>, content, type)
SlideData(layout_index, title, placeholders) ==
    [layout_index |-> layout_index, title |-> title, placeholders |-> placeholders]

\* int(ph_data.get("id", ph_data.get("idx", 0)))
SlotKey(e) == IF e.id # << >> THEN e.id[1] ELSE IF e.idx # << >> THEN e.idx[1] ELSE 0

\* the keys of content_map: 0 for a title, and the key of every entry
ContentKeys(slide_data) ==
    (IF slide_data.title # << >> THEN {0} ELSE {})
        \cup {SlotKey(slide_data.placeholders[j]) : j \in 1..Len(slide_data.placeholders)}

\* content_map[k] = v
Put(cm, k, v) == [x \in DOMAIN cm \cup {k} |-> IF x = k THEN v ELSE cm[x]]

\* if "title" in slide_data: content_map[0] = {"content": title, "type": "text"}
TitleEntry(cm, slide_data) ==
    IF slide_data.title # << >>
    THEN Put(cm, 0, [content |-> slide_data.title[1], type |-> "text"])
    ELSE cm

\* for ph_data in slide_data.get("placeholders", []): content_map[idx] = {...},
\* the entries from j on
RECURSIVE EntriesLoop(_, _, _)
EntriesLoop(cm, phs, j) ==
    IF j > Len(phs) THEN cm
    ELSE EntriesLoop(Put(cm, SlotKey(phs[j]),
                         [content |-> phs[j].content, type |-> phs[j].type]),
                     phs, j + 1)

\* a map in which the title is assigned after the entries
content_map_titleLast(slide_data) ==
    TitleEntry(EntriesLoop(<< >>, slide_data.placeholders, 1), slide_data)

\* content_map = {}, the title, then the placeholder entries in order
content_map(slide_data) ==
    EntriesLoop(TitleEntry(<< >>, slide_data), slide_data.placeholders, 1)

\* a slide that is always made from the first layout of the first master
add_slide_firstLayout(layout, inst, made_for) ==
    LET first == prs[1][1]
        cloned == SelectSeq(first.placeholders, LAMBDA p : p.ph_type \notin FixedPhTypes)
    IN  [made_for |-> made_for,
         slide_layout |-> first,
         placeholders |-> [j \in 1..Len(cloned) |->
                              [idx |-> cloned[j].idx, body |-> inst, inst |-> inst]]]

\* prs.slides.add_slide(layout): the library clones the placeholders of the
\* layout except date, footer and slide number, each with the text body inst;
\* inst is kept beside body to tell what the placeholder started with, and
\* the slide knows its layout
add_slide(layout, inst, made_for) ==
    LET cloned == SelectSeq(layout.placeholders, LAMBDA p : p.ph_type \notin FixedPhTypes)
    IN  [made_for |-> made_for,
         slide_layout |-> layout,
         placeholders |-> [j \in 1..Len(cloned) |->
                              [idx |-> cloned[j].idx, body |-> inst, inst |-> inst]]]

\* a fill that fails on content of list kind that is not a list
FillOne_noCoercion(p, info) ==
    IF p.body = << >> \/ (info.type = "list" /\ info.content.ty # "list")
    THEN [raised |-> TRUE, ph |-> p]
    ELSE IF info.type = "list"
    THEN [raised |-> FALSE,
          ph |-> [p EXCEPT !.body = set_placeholder_list(p.body, info.content.items)]]
    ELSE [raised |-> FALSE,
          ph |-> [p EXCEPT !.body = set_placeholder_text(p.body, StrVal(Str(info.content)))]]

\* if info["type"] == "list" and isinstance(info["content"], list):
\*     _set_placeholder_list(ph, info["content"])
\* else: _set_placeholder_text(ph, str(info["content"]))
\* both helpers raise IndexError on a text body without a paragraph
FillOne(p, info) ==
    IF p.body = << >> THEN [raised |-> TRUE, ph |-> p]
    ELSE IF info.type = "list" /\ info.content.ty = "list"
    THEN [raised |-> FALSE,
          ph |-> [p EXCEPT !.body = set_placeholder_list(p.body, info.content.items)]]
    ELSE [raised |-> FALSE,
          ph |-> [p EXCEPT !.body = set_placeholder_text(p.body, StrVal(Str(info.content)))]]

\* if idx not in content_map: continue
Skipped_blanked(p, cm) == [p EXCEPT !.body = << << >> >>]
Skipped(p, cm) == p

\* for ph in slide.placeholders: ...; an exception ends the loop
RECURSIVE FillLoop(_, _, _)
FillLoop(phs, j, cm) ==
    IF j > Len(phs) THEN [raised |-> FALSE, placeholders |-> phs]
    ELSE IF phs[j].idx \notin DOMAIN cm
         THEN FillLoop([phs EXCEPT ![j] = Skipped(phs[j], cm)], j + 1, cm)
    ELSE LET f == FillOne(phs[j], cm[phs[j].idx])
         IN  IF f.raised THEN [raised |-> TRUE, placeholders |-> phs]
             ELSE FillLoop([phs EXCEPT ![j] = f.ph], j + 1, cm)

\* ---------------------------------------------------------------------------
\* SpecGen: one request is generated from a seed template, slide by slide.

MaxSlides == 2

\* the seed template: one master with two layouts, catalogued by scan_builtins
GenDoc ==
    << << Layout("Title Slide", "title", <<Ph("CENTER_TITLE", 0), Ph("SUBTITLE", 1)>>),
          Layout("Title and Content", "obj",
                 <<Ph("TITLE", 0), Ph("OBJECT", 1), Ph("FOOTER", 11)>>) >> >>

\* a template whose one master has no layout: its catalog is empty and no
\* layout index resolves
NoLayoutDoc == << << >> >>

\* the text bodies a new placeholder can start with: one empty paragraph, one
\* paragraph with properties and an end marker, or no paragraph at all
InstBodies ==
    { << << >> >>, << <<PPrNode("l", NoRPr), EndNode(RPrSz)>> >>, << >> }

\* a slide that is in the seed template already
SeedSlide ==
    [made_for |-> 0,
     slide_layout |-> GenDoc[1][1],
     placeholders |-> << [idx |-> 0, body |-> << <<RunNode(RPrBold, "old")>> >>,
                          inst |-> << <<RunNode(RPrBold, "old")>> >>] >>]

\* an id no placeholder of any layout has
UnknownId == 7

\* the slide specs of a request: titles and entries for ids the layout has,
\* entries for an id it does not have, text and list content under either
\* type, an index outside the catalog, entries keyed by idx or by nothing and
\* entries for one slot twice
SlideSpecs ==
    { SlideData(0, <<StrVal("Hello")>>, << >>),
      SlideData(0, << >>, <<PhData(UnknownId, StrVal("Hello"), "text")>>),
      SlideData(1, <<StrVal("Hello")>>,
                <<PhData(1, ListVal(<<StrVal("a"), IntVal(7)>>), "list"),
                  PhData(UnknownId, ListVal(<<StrVal("a")>>), "list")>>),
      SlideData(1, << >>, <<PhData(1, IntVal(12), "text")>>),
      SlideData(0, <<StrVal("Hello")>>, <<PhData(0, NoneVal, "text")>>),
      SlideData(5, << >>, <<PhData(1, ListVal(<<StrVal("a")>>), "text")>>),
      SlideData(1, << >>, <<PhData(1, StrVal("a"), "list"),
                            PhData(UnknownId, StrVal("a"), "text")>>),
      SlideData(0, << >>, <<PhData(1, IntVal(12), "list")>>),
      SlideData(0, <<StrVal("Q3 Review")>>, <<PhData(1, StrVal("Engineering"), "text")>>),
      SlideData(1, <<StrVal("Hello")>>,
                <<PhEntry(<< >>, <<1>>, StrVal("a"), "text"),
                  PhEntry(<<1>>, <<0>>, IntVal(7), "text"),
                  PhEntry(<< >>, << >>, StrVal("b"), "text")>>) }

InitGen ==
    /\ InjectIdle
    /\ StyleIdle
    /\ StoreIdle
    /\ prs \in {GenDoc, NoLayoutDoc}
    /\ schema_layouts = merged_layouts(deep_scan(prs))
    /\ built = "scanned"
    /\ resolved = NoResolve
    /\ template_slides \in (IF prs = GenDoc THEN {<< >>, <<SeedSlide>>} ELSE {<< >>})
    /\ slides = template_slides
    /\ json_slides = << >>
    /\ gen = NoGen

\* what the slides field of a request body can be
SlidesKinds == {"missing", "not a list", "empty list", "list"}

\* a check that lets the empty list through
slides_rejected_emptyPasses(kind) == kind \in {"missing", "not a list"}

\* "slides" not in body or not isinstance(body["slides"], list)
\*     or len(body["slides"]) == 0
slides_rejected(kind) == kind \in {"missing", "not a list", "empty list"}

\* the slides lists of a kind
RequestsOf(kind) ==
    IF kind = "empty list" THEN {<< >>} ELSE SeqsUpTo(SlideSpecs, MaxSlides) \ {<< >>}

\* generate, the check of the body: a request whose slides field is rejected
\* is answered with status 400
RejectRequest ==
    /\ gen.pc = "idle"
    /\ \E kind \in SlidesKinds :
          /\ slides_rejected(kind)
          /\ gen' = [gen EXCEPT !.pc = "rejected", !.slides_kind = kind, !.status = 400]
    /\ UNCHANGED <<template_slides, slides, json_slides, injVars, styleVars, catVars, storeVars>>

\* generate passes the slides list of a body that was not rejected to
\* create_pptx_from_json: the template is opened
StartGenerate ==
    /\ gen.pc = "idle"
    /\ \E kind \in {"empty list", "list"} :
          /\ ~slides_rejected(kind)
          /\ \E request \in RequestsOf(kind) : json_slides' = request
          /\ gen' = [gen EXCEPT !.pc = "running", !.slides_kind = kind, !.opened = TRUE]
    /\ UNCHANGED <<template_slides, slides, injVars, styleVars, catVars, storeVars>>

\* one pass of the loop over the slide specs: resolve the layout, add the
\* slide, build content_map, fill the placeholders; an exception ends the call
\* and generate answers it with status 500
GenerateSlide ==
    /\ gen.pc = "running"
    /\ gen.i < Len(json_slides)
    /\ LET slide_data == json_slides[gen.i + 1]
           r == resolve_layout_from_schema(prs, schema_layouts, slide_data.layout_index)
       IN  IF r.raised
           THEN /\ gen' = [gen EXCEPT !.pc = "raised", !.status = 500,
                                        !.raised_by = "_resolve_layout_from_schema"]
                /\ UNCHANGED slides
           ELSE \E inst \in InstBodies :
                    LET slide == add_slide(LayoutAt(prs, r.layout), inst, gen.i + 1)
                        f == FillLoop(slide.placeholders, 1, content_map(slide_data))
                    IN  /\ slides' = Append(slides,
                                            [slide EXCEPT !.placeholders = f.placeholders])
                        /\ gen' = IF f.raised
                                  THEN [gen EXCEPT !.pc = "raised", !.i = gen.i + 1,
                                                   !.status = 500, !.raised_by = "fill"]
                                  ELSE [gen EXCEPT !.i = gen.i + 1]
    /\ UNCHANGED <<template_slides, json_slides, injVars, styleVars, catVars, storeVars>>

\* after the last slide spec the document is saved and generate sends it
FinishGenerate ==
    /\ gen.pc = "running"
    /\ gen.i = Len(json_slides)
    /\ gen' = [gen EXCEPT !.pc = "done", !.status = 200]
    /\ UNCHANGED <<template_slides, slides, json_slides, injVars, styleVars, catVars, storeVars>>

NextGen == RejectRequest \/ StartGenerate \/ GenerateSlide \/ FinishGenerate

SpecGen == InitGen /\ [][NextGen]_vars

\* ---------------------------------------------------------------------------
\* Properties of generation

\* the slides added by the call, in order
NewSlides == SubSeq(slides, Len(template_slides) + 1, Len(slides))

\* the slide spec a new slide was made for
SpecOf(slide) == json_slides[slide.made_for]

\* the spec names an id that no placeholder of the slide has
NamesUnknownId(slide) ==
    \E k \in ContentKeys(SpecOf(slide)) :
        \A j \in 1..Len(slide.placeholders) : slide.placeholders[j].idx # k

\* C5: a slide spec that names a slot id no placeholder of the new slide has
\* raises no error and changes nothing for that entry: the filling fails only
\* where a named placeholder of the slide had no paragraph, the placeholders
\* whose id the spec does not name keep the text body they were instantiated
\* with, and the layouts and the slides that were there before are unchanged.
C5_UnknownSlotNoOp ==
    /\ \A n \in 1..Len(NewSlides) :
          \A j \in 1..Len(NewSlides[n].placeholders) :
              LET p == NewSlides[n].placeholders[j]
              IN  p.idx \notin ContentKeys(SpecOf(NewSlides[n])) => p.body = p.inst
    /\ (gen.pc = "raised" /\ gen.raised_by = "fill") =>
          LET last == slides[Len(slides)]
          IN  \E j \in 1..Len(last.placeholders) :
                  /\ last.placeholders[j].idx \in ContentKeys(SpecOf(last))
                  /\ last.placeholders[j].inst = << >>
    /\ SubSeq(slides, 1, Len(template_slides)) = template_slides
    /\ prs \in {GenDoc, NoLayoutDoc}

\* a finished call whose spec named an unknown id, on a slide with a
\* placeholder the spec did not name that kept a body with children, in a
\* template that had a slide already
C5_Witness ==
    /\ gen.pc = "done"
    /\ template_slides # << >>
    /\ \E n \in 1..Len(NewSlides) :
          /\ NamesUnknownId(NewSlides[n])
          /\ \E j \in 1..Len(NewSlides[n].placeholders) :
                LET p == NewSlides[n].placeholders[j]
                IN  /\ p.idx \notin ContentKeys(SpecOf(NewSlides[n]))
                    /\ p.body = p.inst
                    /\ p.inst # << >>
                    /\ p.inst[1] # << >>

\* ---------------------------------------------------------------------------
\* Properties of the resolver on pairs and indexes that are out of range

\* the document has a first layout of the first master
HasFirstLayout == prs # << >> /\ prs[1] # << >>

\* C11: a catalog entry whose stored master_index or local_layout_index is out
\* of range for the document (below 0, or not less than the number of masters
\* or of that master's layouts) resolves to the first layout of the first
\* master, and no exception is propagated.
C11_OutOfRangePair ==
    (resolved.called /\ HasFirstLayout
        /\ HasPair(ResolvedEntry) /\ ~PairInRange(ResolvedEntry[1]))
        => /\ ~resolved.raised
           /\ resolved.layout = <<0, 0>>

\* C12: a requested layout index that no catalog entry has is clamped to
\* index 0: the layout returned is the one index 0 resolves to, and no error
\* is raised.
C12_ClampedToZero ==
    (resolved.called /\ HasFirstLayout /\ ResolvedEntry = << >>)
        => /\ ~resolved.raised
           /\ resolved.layout = resolve_layout_from_schema(prs, schema_layouts, 0).layout

\* ---------------------------------------------------------------------------
\* Properties of the scheme-color step of the cascade

\* the theme has no slot for the symbolic color key, nor for what key is an
\* alias of
Unresolvable(tc, key) ==
    /\ key \notin DOMAIN tc
    /\ \A a \in DOMAIN SchemeAliases : a = key => SchemeAliases[a] \notin DOMAIN tc

\* C13: no symbolic color survives the cascade: the color of a resolved font is
\* absent or a literal, and when the merged color is a symbolic reference
\* without a matching theme slot, directly or through an alias, the font has
\* no color and no color_from_xml flag, whatever a lower layer defined.
C13_NoSymbolicColor ==
    /\ detail.font.color.kind # "scheme"
    /\ (detail.merged.color.kind = "scheme"
            /\ Unresolvable(theme_colors, detail.merged.color.val))
        => /\ detail.font.color = NoColor
           /\ detail.font.color_from_xml = None

\* an override with a symbolic color no slot matches, over a master style of
\* the placeholder that has a literal color
C13_Witness ==
    /\ detail.xml_font.color.kind = "scheme"
    /\ Unresolvable(theme_colors, detail.xml_font.color.val)
    /\ CascadeStyle(detail.is_title, master_styles).color.kind = "hex"
    /\ detail.font.color = NoColor
    /\ detail.font.color_from_xml = None

\* C14: for the theme colors of the last scan and each alias pair (tx1, dk1),
\* (tx2, dk2), (bg1, lt1), (bg2, lt2), resolving the symbolic color of the
\* alias gives what resolving the symbolic color of its slot gives: the same
\* literal, or no color for both; and a font whose merged color is an alias
\* has the color its slot resolves to.
C14_AliasResolution ==
    /\ \A a \in DOMAIN SchemeAliases :
          ResolveColor(Scheme(a), theme_colors)
              = ResolveColor(Scheme(SchemeAliases[a]), theme_colors)
    /\ (detail.merged.color.kind = "scheme"
            /\ detail.merged.color.val \in DOMAIN SchemeAliases)
        => detail.font.color
              = ResolveColor(Scheme(SchemeAliases[detail.merged.color.val]), theme_colors)

\* a font whose merged color is an alias, resolved to the literal of its slot
C14_Witness ==
    /\ detail.merged.color.kind = "scheme"
    /\ detail.merged.color.val \in DOMAIN SchemeAliases
    /\ SchemeAliases[detail.merged.color.val] \in DOMAIN theme_colors
    /\ detail.font.color = Hex(theme_colors[SchemeAliases[detail.merged.color.val]])

\* ---------------------------------------------------------------------------
\* SpecClassify: the loop of deep_scan over the placeholders of a layout, as
\* far as _classify_placeholder goes: a placeholder is met, then classified.

MaxIdx == 13

\* the placeholder types the categories of deep_scanner.py name
PhTypes == TitlePhTypes \cup FixedPhTypes \cup PicturePhTypes \cup BodyPhTypes

AnyPlaceholder(p) ==
    \E t \in PhTypes, i \in 0..MaxIdx : p = [ph_type |-> t, idx |-> i, body |-> << << >> >>]

InitClassify ==
    /\ InjectIdle
    /\ CatalogIdle
    /\ GenIdle
    /\ StoreIdle
    /\ AnyPlaceholder(ph)
    /\ master_styles = None
    /\ theme_fonts = None
    /\ theme_colors = None
    /\ detail = None
    /\ cls = None

\* cls = _classify_placeholder(ph)
ClassifyPlaceholder ==
    /\ cls = None
    /\ cls' = classify_placeholder(ph)
    /\ UNCHANGED <<ph, master_styles, theme_fonts, theme_colors, detail>>
    /\ UNCHANGED <<injVars, catVars, genVars, storeVars>>

\* for ph in layout.placeholders: the next placeholder
NextPlaceholder ==
    /\ cls # None
    /\ AnyPlaceholder(ph')
    /\ cls' = None
    /\ UNCHANGED <<master_styles, theme_fonts, theme_colors, detail>>
    /\ UNCHANGED <<injVars, catVars, genVars, storeVars>>

NextClassify == ClassifyPlaceholder \/ NextPlaceholder

SpecClassify == InitClassify /\ [][NextClassify]_vars

\* C15: every placeholder gets exactly one role: title when its type is title,
\* centered title or vertical title or its slot id is 0; otherwise fixed when
\* its type is date, footer or slide number; otherwise picture when its type
\* is picture; otherwise content.  Slot id 0 makes a title of a date, footer,
\* slide number or picture placeholder too.
C15_RoleClassification ==
    cls # None =>
        /\ cls \in {"title", "fixed", "picture", "content"}
        /\ cls = "title" <=> (ph.ph_type \in {"TITLE", "CENTER_TITLE", "VERTICAL_TITLE"}
                                \/ ph.idx = 0)
        /\ cls = "fixed" <=> (ph.ph_type \in {"DATE", "FOOTER", "SLIDE_NUMBER"}
                                /\ cls # "title")
        /\ cls = "picture" <=> (ph.ph_type = "PICTURE" /\ cls # "title")

\* a footer with slot id 0, classified title
C15_Witness ==
    /\ ph.ph_type = "FOOTER"
    /\ ph.idx = 0
    /\ cls = "title"

\* ---------------------------------------------------------------------------
\* Properties of the placeholder lists of the catalog

\* C16: in every catalog produced, the placeholder list of an entry holds no
\* placeholder classified fixed, and holds every placeholder of its layout
\* that is not classified fixed exactly once, in the layout's order.
C16_FixedExcluded ==
    built = "scanned" =>
        \A j \in 1..Len(schema_layouts) :
            LET e == schema_layouts[j]
                layout == LayoutAt(prs, e.made_from)
            IN  /\ \A k \in 1..Len(e.placeholders) :
                       classify_placeholder(e.placeholders[k]) # "fixed"
                /\ e.placeholders
                       = SelectSeq(layout.placeholders,
                                   LAMBDA p : classify_placeholder(p) # "fixed")

\* a catalog with an entry for a layout that has a footer beside two others
C16_Witness ==
    /\ built = "scanned"
    /\ \E j \in 1..Len(schema_layouts) :
          LET layout == LayoutAt(prs, schema_layouts[j].made_from)
          IN  /\ \E k \in 1..Len(layout.placeholders) :
                     layout.placeholders[k].ph_type = "FOOTER"
              /\ Len(schema_layouts[j].placeholders) = Len(layout.placeholders) - 1
              /\ Len(schema_layouts[j].placeholders) > 1

\* ---------------------------------------------------------------------------
\* Properties of the choice of the master text style

\* C17: the master layer overlaid on a title-role placeholder is the master's
\* title style, the one overlaid on every other placeholder is the body
\* style; a title-role placeholder takes no master-layer value from the body
\* style, also when the master has a body style and no title style.
C17_StyleClassSelection ==
    /\ detail.is_title => detail.cascade_style = master_styles.titleStyle
    /\ ~detail.is_title => detail.cascade_style = master_styles.bodyStyle

\* ---------------------------------------------------------------------------
\* Properties of list injection, continued

\* C18: for every list of at least one item, each produced paragraph has as
\* first child a pPr equal to the one the first paragraph had before the call
\* (none if it had none) and as last child an endParaRPr equal to the original
\* one (none if it had none), and holds the text of no other item.
C18_ListKeepsFormatting ==
    (call.op = "list" /\ txBody0 # << >> /\ call.args # << >>) =>
        /\ ~call.raised
        /\ \A i \in 1..Len(txBody) :
              LET p == txBody[i]
                  p0 == txBody0[1]
              IN  /\ IF HasTag(p0, "pPr")
                     THEN p[1] = FirstWith(p0, "pPr")
                     ELSE ~HasTag(p, "pPr")
                  /\ IF HasTag(p0, "endParaRPr")
                     THEN p[Len(p)] = FirstWith(p0, "endParaRPr")
                     ELSE ~HasTag(p, "endParaRPr")
                  /\ \A r \in Runs(p) : \A j \in 1..Len(call.args) :
                         p[r].t = Str(call.args[j]) => Str(call.args[j]) = Str(call.args[i])

\* two different items injected into a body whose first paragraph had a pPr,
\* an old run and an endParaRPr
C18_Witness ==
    /\ call.op = "list"
    /\ Len(call.args) = 2
    /\ Str(call.args[1]) # Str(call.args[2])
    /\ txBody0 # << >>
    /\ HasTag(txBody0[1], "pPr")
    /\ HasTag(txBody0[1], "r")
    /\ HasTag(txBody0[1], "endParaRPr")
    /\ Len(txBody) = 2
    /\ txBody[2][1] = FirstWith(txBody0[1], "pPr")
    /\ txBody[2][3] = FirstWith(txBody0[1], "endParaRPr")

\* ---------------------------------------------------------------------------
\* Properties of generation, continued

\* the content the spec of a new slide has for the placeholder p, as the
\* sequence of one content_map value, empty when the spec does not name p
InfoFor(slide, p) ==
    LET cm == content_map(SpecOf(slide))
    IN  IF p.idx \in DOMAIN cm THEN <<cm[p.idx]>> ELSE << >>

\* the spec gives p content of list kind that is not a list
ListKindNotList(slide, p) ==
    /\ InfoFor(slide, p) # << >>
    /\ InfoFor(slide, p)[1].type = "list"
    /\ InfoFor(slide, p)[1].content.ty # "list"

\* C19: when a slot's kind is list and its content is not a list, generation
\* raises no error and the placeholder, if its text body had a paragraph, ends
\* as after injecting the one-item list of the content's string form: one
\* paragraph with one run whose text is that string.
C19_NonListCoerced ==
    /\ \A n \in 1..Len(NewSlides) : \A j \in 1..Len(NewSlides[n].placeholders) :
          LET p == NewSlides[n].placeholders[j]
              text == Str(InfoFor(NewSlides[n], p)[1].content)
          IN  (ListKindNotList(NewSlides[n], p) /\ p.inst # << >>)
                  => /\ p.body = set_placeholder_list(p.inst, <<StrVal(text)>>)
                     /\ Len(p.body) = 1
                     /\ Cardinality(Runs(p.body[1])) = 1
                     /\ \A r \in Runs(p.body[1]) : p.body[1][r].t = text
    /\ (gen.pc = "raised" /\ gen.raised_by = "fill") =>
          \E j \in 1..Len(slides[Len(slides)].placeholders) :
              slides[Len(slides)].placeholders[j].inst = << >>

\* a finished call that gave a placeholder with a pPr and an endParaRPr the
\* integer 12 under the list kind
C19_Witness ==
    /\ gen.pc = "done"
    /\ \E n \in 1..Len(NewSlides) : \E j \in 1..Len(NewSlides[n].placeholders) :
          LET p == NewSlides[n].placeholders[j]
          IN  /\ ListKindNotList(NewSlides[n], p)
              /\ InfoFor(NewSlides[n], p)[1].content = IntVal(12)
              /\ p.inst # << >>
              /\ Len(p.inst[1]) = 2
              /\ Len(p.body) = 1
              /\ p.body[1][2].t = "12"

\* the spec names a placeholder of the slide whose text body was instantiated
\* with no paragraph
ZeroParaTargeted(slide) ==
    \E j \in 1..Len(slide.placeholders) :
        /\ slide.placeholders[j].inst = << >>
        /\ InfoFor(slide, slide.placeholders[j]) # << >>

\* C20: a targeted placeholder whose text body has zero paragraphs fails only
\* for itself: the call goes on after it, to the other placeholders of the
\* slide and to the later slide specs, and does not end with the error.
C20_FailureConfined ==
    \A n \in 1..Len(NewSlides) :
        ZeroParaTargeted(NewSlides[n]) => gen.pc # "raised"

\* ---------------------------------------------------------------------------
\* Properties of the injector, continued

\* the runs of a text body, as the set of <<paragraph, child>> positions
BodyRuns(body) == { <<i, j>> \in (1..Len(body)) \X (1..MaxSize + 2) :
                        j <= Len(body[i]) /\ body[i][j].tag = "r" }

SingleRun(p, s) ==
    /\ Cardinality(Runs(p)) = 1
    /\ \A r \in Runs(p) : p[r].t = s

\* the placeholder p holds the content of info: one paragraph per item of a
\* list of list kind (an empty list leaves the first paragraph as it was),
\* else one paragraph with the content's string form
HoldsContent(p, info) ==
    IF info.type = "list" /\ info.content.ty = "list"
    THEN IF info.content.items = << >>
         THEN p.body = <<p.inst[1]>>
         ELSE /\ Len(p.body) = Len(info.content.items)
              /\ \A i \in 1..Len(p.body) : SingleRun(p.body[i], Str(info.content.items[i]))
    ELSE /\ Len(p.body) = 1
         /\ SingleRun(p.body[1], Str(info.content))

\* the ids the placeholders list of a slide spec names
ListedIds(slide_data) ==
    {SlotKey(slide_data.placeholders[j]) : j \in 1..Len(slide_data.placeholders)}

\* the n-th added slide comes from the layout resolved for the n-th spec
FromResolvedLayout(n) ==
    /\ NewSlides[n].made_for = n
    /\ NewSlides[n].slide_layout =
          LayoutAt(prs, resolve_layout_from_schema(prs, schema_layouts,
                                                   json_slides[n].layout_index).layout)

\* every listed slot the n-th added slide has holds its content
ListedSlotsFilled(n) ==
    \A j \in 1..Len(NewSlides[n].placeholders) :
        LET p == NewSlides[n].placeholders[j]
        IN  p.idx \in ListedIds(json_slides[n])
                => HoldsContent(p, content_map(json_slides[n])[p.idx])

\* slot 0 of the n-th added slide holds the title of its spec as a single run
TitleInSlotZero(n) ==
    \A j \in 1..Len(NewSlides[n].placeholders) :
        LET p == NewSlides[n].placeholders[j]
        IN  (p.idx = 0 /\ json_slides[n].title # << >>)
                => /\ Len(p.body) = 1
                   /\ SingleRun(p.body[1], Str(json_slides[n].title[1]))

\* C22 as claimed: the generated document holds k+n slides, the i-th added one
\* from the layout resolved for the i-th spec, slot 0 holding the spec's title
\* and every listed slot of the slide its content.
C22_EndToEnd_TitleAlways ==
    gen.pc = "done" =>
        /\ Len(slides) = Len(template_slides) + Len(json_slides)
        /\ \A n \in 1..Len(NewSlides) :
              FromResolvedLayout(n) /\ TitleInSlotZero(n) /\ ListedSlotsFilled(n)

\* C22: the generated document holds k+n slides, the template's k first; the
\* i-th added one is made from the layout resolved for the i-th spec, every
\* listed slot of the slide holds its content, and slot 0 holds the spec's
\* title as a single run unless the placeholders list names slot 0 itself.
\* Until the call ends one slide is added per spec processed.
C22_EndToEnd ==
    /\ gen.pc \in {"running", "done"} => Len(slides) = Len(template_slides) + gen.i
    /\ SubSeq(slides, 1, Len(template_slides)) = template_slides
    /\ gen.pc = "done" =>
          /\ Len(slides) = Len(template_slides) + Len(json_slides)
          /\ \A n \in 1..Len(NewSlides) :
                /\ FromResolvedLayout(n)
                /\ 0 \notin ListedIds(json_slides[n]) => TitleInSlotZero(n)
                /\ ListedSlotsFilled(n)

\* the scenario of the specification on a template that holds one slide: the
\* first layout has slots 0 and 1, the new slide holds the two run texts
C22_Witness ==
    /\ gen.pc = "done"
    /\ Len(template_slides) = 1
    /\ Len(slides) = 2
    /\ json_slides = <<SlideData(0, <<StrVal("Q3 Review")>>,
                                 <<PhData(1, StrVal("Engineering"), "text")>>)>>
    /\ slides[2].slide_layout.name = "Title Slide"
    /\ Len(slides[2].placeholders) = 2
    /\ slides[2].placeholders[1].body =
          << <<PPrNode("l", NoRPr), RunNode(NoRPr, "Q3 Review"), EndNode(RPrSz)>> >>
    /\ slides[2].placeholders[2].body =
          << <<PPrNode("l", NoRPr), RunNode(NoRPr, "Engineering"), EndNode(RPrSz)>> >>

\* ---------------------------------------------------------------------------
\* Properties of the catalog, continued

\* C23: catalog building fails hard only for a document with zero masters or
\* zero layouts: the scan of a document with a master and a layout raises
\* nothing, whatever the names and type attributes of its layouts are.
C23_ScanFailsOnlyWhenEmpty ==
    built = "raised" => (prs = << >> \/ LayoutCount(prs) = 0)

\* ---------------------------------------------------------------------------
\* app.py, update_schema and import_schema on the schema sidecar of one
\* template.  The server handles each request in a thread of its own and the
\* handlers take no lock, so the file operations of two requests interleave.
\* A file is [state, layouts, other]: state is ok for well-formed JSON, empty
\* for a file just truncated by open(path, "w"), corrupt for bytes of two
\* writers; layouts stands for the layouts array, a number from 1 for an array
\* a request sends; other stands for the other keys of the schema an
\* import_schema request sent, by the number of that request; 0 is for what
\* the import that made the sidecar sent.

MaxReqs == 2

File(layouts, other) == [state |-> "ok", layouts |-> layouts, other |-> other]
EmptyFile == [state |-> "empty", layouts |-> 0, other |-> 0]
CorruptFile == [state |-> "corrupt", layouts |-> 0, other |-> 0]

\* the sidecar as an earlier import_schema wrote it
StoredFile == File(0, 0)

\* existing["layouts"] = body["layouts"]: the other keys stay
UpdatedSchema(existing, layouts) == [existing EXCEPT !.layouts = layouts]

\* saved = dict(ai_schema) and the three stamps: every key of the file is replaced
ImportedSchema(layouts, other) == File(layouts, other)

\* a request: pc is start, checked (update_schema found the file), read
\* (update_schema holds existing), open (the file is open for writing, data
\* is what will be dumped), done or failed
Request(op, layouts) ==
    [op |-> op, layouts |-> layouts, pc |-> "start", data |-> EmptyFile]

InitSidecar ==
    /\ InjectIdle
    /\ StyleIdle
    /\ CatalogIdle
    /\ GenIdle
    /\ BuiltinIdle
    /\ sidecar = StoredFile
    /\ reqs \in { [r \in 1..Len(q) |-> Request(q[r][1], q[r][2])] :
                    q \in SeqsUpTo({"update_schema", "import_schema"} \X (1..MaxReqs),
                                   MaxReqs) \ {<< >>} }

Op(r) == reqs[r].op
Pc(r) == reqs[r].pc

\* if not os.path.isfile(fpath): return 404; the file is there, truncated or not
update_schema_check(r) ==
    /\ Op(r) = "update_schema"
    /\ Pc(r) = "start"
    /\ reqs' = [reqs EXCEPT ![r].pc = "checked"]
    /\ UNCHANGED sidecar

\* with open(fpath, "r") as f: existing = json.load(f); the two assignments.
\* json.load raises on a file that is not well-formed JSON
update_schema_read(r) ==
    /\ Op(r) = "update_schema"
    /\ Pc(r) = "checked"
    /\ reqs' = [reqs EXCEPT ![r] =
                  IF sidecar.state = "ok"
                  THEN [reqs[r] EXCEPT !.pc = "read", !.data = UpdatedSchema(sidecar, reqs[r].layouts)]
                  ELSE [reqs[r] EXCEPT !.pc = "failed"]]
    /\ UNCHANGED sidecar

\* open(fpath, "w") of update_schema: the file is truncated
update_schema_open(r) ==
    /\ Op(r) = "update_schema"
    /\ Pc(r) = "read"
    /\ sidecar' = EmptyFile
    /\ reqs' = [reqs EXCEPT ![r].pc = "open"]

\* open(schema_path, "w") of import_schema, after saved was built
import_schema_open(r) ==
    /\ Op(r) = "import_schema"
    /\ Pc(r) = "start"
    /\ sidecar' = EmptyFile
    /\ reqs' = [reqs EXCEPT ![r] = [@ EXCEPT !.pc = "open", !.data = ImportedSchema(reqs[r].layouts, r)]]

\* what json.dump and the close leave in the file: the bytes are written from
\* offset 0, over whatever another writer wrote since this one truncated, so
\* bytes of that writer stay behind when its text was the longer one
Dumped(file, data) == IF file.state = "empty" THEN {data} ELSE {data, CorruptFile}

\* json.dump(..., f) and the end of the with block, of either handler
schema_dump(r) ==
    /\ Pc(r) = "open"
    /\ sidecar' \in Dumped(sidecar, reqs[r].data)
    /\ reqs' = [reqs EXCEPT ![r].pc = "done"]

NextSidecar ==
    \E r \in 1..Len(reqs) :
        /\ \/ update_schema_check(r)
           \/ update_schema_read(r)
           \/ update_schema_open(r)
           \/ import_schema_open(r)
           \/ schema_dump(r)
        /\ UNCHANGED <<injVars, styleVars, catVars, genVars, builtinVars>>

SpecSidecar == InitSidecar /\ [][NextSidecar]_vars

\* the file after the requests ran one after the other in the given order
RECURSIVE Serial(_, _)
Serial(file, order) ==
    IF order = << >> THEN file
    ELSE Serial(IF Op(Head(order)) = "update_schema"
                THEN UpdatedSchema(file, reqs[Head(order)].layouts)
                ELSE ImportedSchema(reqs[Head(order)].layouts, Head(order)),
                Tail(order))

\* the orders the requests can be run in
Orders ==
    { o \in [1..Len(reqs) -> 1..Len(reqs)] : \A a, b \in 1..Len(reqs) : o[a] = o[b] => a = b }

AllComplete == \A r \in 1..Len(reqs) : Pc(r) \in {"done", "failed"}

\* C24: writes to the sidecar are a critical section: once concurrent
\* update_schema and import_schema requests for one filename have completed,
\* none of them has failed and the stored schema is what running them in some
\* serial order gives.
C24_SidecarSerializable ==
    AllComplete =>
        /\ \A r \in 1..Len(reqs) : Pc(r) = "done"
        /\ \E o \in Orders : sidecar = Serial(StoredFile, o)

\* ---------------------------------------------------------------------------
\* Properties of the /generate request

\* layout resolution raised for some slide spec of the request
ResolutionRaises ==
    \E n \in 1..Len(json_slides) :
        resolve_layout_from_schema(prs, schema_layouts, json_slides[n].layout_index).raised

\* C25: no partial document on failure: when layout resolution or injection
\* raises for a slide the response is an error with status 500 and no
\* document; a document (status 200) is returned only when every slide spec
\* was processed without an exception; a request whose slides field is
\* missing, not a list or empty gets status 400 before a document is opened.
C25_NoPartialDocument ==
    /\ gen.pc = "raised" <=> gen.status = 500
    /\ gen.status = 200 =>
          /\ gen.pc = "done"
          /\ gen.raised_by = "none"
          /\ gen.i = Len(json_slides)
          /\ Len(NewSlides) = Len(json_slides)
          /\ ~ResolutionRaises
          /\ \A n \in 1..Len(NewSlides) : ~ZeroParaTargeted(NewSlides[n])
    /\ gen.slides_kind \in {"missing", "not a list", "empty list"} =>
          /\ gen.status = 400
          /\ ~gen.opened
          /\ slides = template_slides
    /\ gen.status = 400 => gen.pc = "rejected"

\* a request of two slide specs whose second failed in the filling, after the
\* first slide was added and filled: the answer is 500
C25_Witness ==
    /\ gen.pc = "raised"
    /\ gen.raised_by = "fill"
    /\ gen.status = 500
    /\ Len(json_slides) = 2
    /\ Len(NewSlides) = 2
    /\ ~ZeroParaTargeted(NewSlides[1])
    /\ ZeroParaTargeted(NewSlides[2])

\* ---------------------------------------------------------------------------
\* Properties of the cascade, continued

\* the key of d["font"] that tells where the attribute k came from
FlagKey(k) == k \o "_from_xml"

\* C26: every attribute present in the resolved font (name, ea_name, size,
\* bold, color, align) carries a provenance flag of its own, which is true
\* only if the value came from the placeholder's own override.
C26_EveryAttributeFlagged ==
    \A k \in StyleKeys \cup {"align"} :
        ~IsNone(k, detail.font[k]) =>
            /\ FlagKey(k) \in DOMAIN detail.font
            /\ detail.font[FlagKey(k)] = PyTrue => ~IsNone(k, detail.xml_font[k])

\* the run-properties elements of the paragraph p in the order of the claim:
\* the defRPr of its pPr, its endParaRPr, the rPr of each run in order
ParagraphSources(p) ==
    LET iP == Find(p, "pPr")
        iE == Find(p, "endParaRPr")
        runs == SelectSeq(p, LAMBDA n : n.tag = "r" /\ n.rpr.has)
    IN  (IF iP # 0 /\ p[iP].rpr.has THEN <<p[iP].rpr>> ELSE << >>)
            \o (IF iE # 0 THEN <<p[iE].rpr>> ELSE << >>)
            \o [i \in 1..Len(runs) |-> runs[i].rpr]

\* those of all paragraphs of a text body, in document order
RECURSIVE BodySources(_)
BodySources(body) ==
    IF body = << >> THEN << >>
    ELSE ParagraphSources(Head(body)) \o BodySources(Tail(body))

\* the value of the key k in the first source that has one, None without one
FirstNonNull(k, sources) ==
    LET has == { i \in 1..Len(sources) : ~IsNone(k, parse_rpr_xml(sources[i])[k]) }
    IN  IF has = {} THEN NoneOf(k)
        ELSE parse_rpr_xml(sources[CHOOSE i \in has : \A h \in has : i <= h])[k]

\* the algn attributes of the paragraphs' pPr nodes that have one, in order
RECURSIVE Alignments(_)
Alignments(body) ==
    IF body = << >> THEN << >>
    ELSE LET p == Head(body)
             i == Find(p, "pPr")
         IN  (IF i # 0 /\ p[i].algn # None /\ p[i].algn # "" THEN <<p[i].algn>> ELSE << >>)
                 \o Alignments(Tail(body))

\* C27: for each of name, ea_name, size, bold and color the extracted
\* override is the first non-null value met when the paragraphs are visited in
\* document order and, in each paragraph, the defRPr of its pPr, then its
\* endParaRPr, then the rPr of each run in order; a later source never
\* replaces it.  The alignment is that of the first pPr that has an algn.
C27_FirstNonNullWins ==
    /\ \A k \in StyleKeys : detail.xml_font[k] = FirstNonNull(k, BodySources(ph.body))
    /\ detail.xml_font.align =
          IF Alignments(ph.body) = << >> THEN None
          ELSE AlignName(Alignments(ph.body)[1])

\* a paragraph whose pPr and whose run both name a font, the run alone a
\* size: the name is the pPr's, the size the run's
C27_Witness ==
    /\ Len(ph.body) = 1
    /\ Len(ph.body[1]) = 2
    /\ ph.body[1][1].tag = "r"
    /\ ph.body[1][1].rpr.latin = "Courier"
    /\ ph.body[1][2].tag = "pPr"
    /\ ph.body[1][2].rpr.latin = "Arial"
    /\ detail.xml_font.name = "Arial"
    /\ detail.xml_font.size = 240
    /\ detail.xml_font.align = "CENTER"

\* ---------------------------------------------------------------------------
\* Properties of the slot map

\* the entries of a slide spec whose key is k, by position
EntriesFor(slide_data, k) ==
    { j \in 1..Len(slide_data.placeholders) : SlotKey(slide_data.placeholders[j]) = k }

\* what slot k is to hold: the last entry whose key is k, the title for slot 0
\* without such an entry
Expected(slide_data, k) ==
    LET js == EntriesFor(slide_data, k)
        last == CHOOSE j \in js : \A h \in js : h <= j
    IN  IF js # {}
        THEN [content |-> slide_data.placeholders[last].content,
              type |-> slide_data.placeholders[last].type]
        ELSE [content |-> slide_data.title[1], type |-> "text"]

\* C28: for each slide spec the title goes to slot 0 first and the placeholder
\* entries follow in input order, keyed by id, by idx without an id, by 0
\* without either: the last entry of a slot wins, an entry for slot 0 replaces
\* the title, and the placeholders of the new slide are filled from that map.
C28_SlotMapOrder ==
    /\ \A n \in 1..Len(json_slides) :
          /\ DOMAIN content_map(json_slides[n]) = ContentKeys(json_slides[n])
          /\ \A k \in ContentKeys(json_slides[n]) :
                content_map(json_slides[n])[k] = Expected(json_slides[n], k)
    /\ \A n \in 1..Len(NewSlides) : \A j \in 1..Len(NewSlides[n].placeholders) :
          LET p == NewSlides[n].placeholders[j]
          IN  (p.idx \in ContentKeys(SpecOf(NewSlides[n])) /\ p.inst # << >>)
                  => HoldsContent(p, Expected(SpecOf(NewSlides[n]), p.idx))

\* a generated slide whose spec has a title, an entry without id or idx, and
\* two entries for slot 1, the first keyed by idx and the second by id: slot 0
\* holds the entry that replaced the title and slot 1 the later entry
C28_Witness ==
    /\ gen.pc = "done"
    /\ Len(json_slides) = 1
    /\ json_slides[1].title = <<StrVal("Hello")>>
    /\ Len(json_slides[1].placeholders) = 3
    /\ json_slides[1].placeholders[1].id = << >>
    /\ json_slides[1].placeholders[2].idx = <<0>>
    /\ Len(NewSlides) = 1
    /\ NewSlides[1].placeholders[1].idx = 0
    /\ NewSlides[1].placeholders[1].body = << <<RunNode(NoRPr, "b")>> >>
    /\ NewSlides[1].placeholders[2].idx = 1
    /\ NewSlides[1].placeholders[2].body = << <<RunNode(NoRPr, "7")>> >>

\* ---------------------------------------------------------------------------
\* app.py, the built-in templates: save_as_builtin copies an uploaded pptx
\* into the built-in template directory under its own file name and writes
\* the profile of the id; delete_builtin removes the profile and the pptx it
\* names; generate with a builtin_id opens the pptx the profile names.
\* profiles[id] is the pptx key of the profile of id, 0 without a profile.

MaxIds == 3         \* built-in ids
MaxFiles == 2       \* uploaded pptx files

BuiltinIds == 1..MaxIds
Uploads == 1..MaxFiles

Answer(op, id, status, error) == [op |-> op, id |-> id, status |-> status, error |-> error]

InitBuiltin ==
    /\ InjectIdle
    /\ StyleIdle
    /\ CatalogIdle
    /\ GenIdle
    /\ SidecarIdle
    /\ profiles = [id \in BuiltinIds |-> 0]
    /\ master_dir = {}
    /\ answer = Answer("none", 0, 0, "")

\* shutil.copy2(src_pptx, dst_pptx) with dst the file's own name, then the
\* profile {"id": builtin_id, "pptx": filename, ...} is written
save_as_builtin(id, filename) ==
    /\ master_dir' = master_dir \cup {filename}
    /\ profiles' = [profiles EXCEPT ![id] = filename]
    /\ answer' = Answer("save_as_builtin", id, 200, "")

\* os.remove(profile_path), then os.remove(pptx_path) of profile["pptx"] if
\* that file is there; 404 without a profile
delete_builtin(id) ==
    IF profiles[id] = 0
    THEN /\ answer' = Answer("delete_builtin", id, 404, "not found")
         /\ UNCHANGED <<profiles, master_dir>>
    ELSE /\ profiles' = [profiles EXCEPT ![id] = 0]
         /\ master_dir' = master_dir \ {profiles[id]}
         /\ answer' = Answer("delete_builtin", id, 200, "")

\* generate with "builtin_id": 404 without a profile, 404 when the pptx the
\* profile names is not in the directory, else the document is generated
generate_builtin(id) ==
    /\ answer' = IF profiles[id] = 0 THEN Answer("generate", id, 404, "not found")
                 ELSE IF profiles[id] \notin master_dir
                      THEN Answer("generate", id, 404, "missing")
                      ELSE Answer("generate", id, 200, "")
    /\ UNCHANGED <<profiles, master_dir>>

NextBuiltin ==
    /\ \/ \E id \in BuiltinIds, filename \in Uploads : save_as_builtin(id, filename)
       \/ \E id \in BuiltinIds : delete_builtin(id)
       \/ \E id \in BuiltinIds : generate_builtin(id)
    /\ UNCHANGED <<injVars, styleVars, catVars, genVars, sidecarVars>>

SpecBuiltin == InitBuiltin /\ [][NextBuiltin]_vars

\* C29: after any sequence of save_as_builtin and delete_builtin every
\* built-in profile that exists names a pptx that is in the built-in template
\* directory, and generating with the id of such a profile never fails for a
\* missing file.
C29_ProfileHasFile ==
    /\ \A id \in BuiltinIds : profiles[id] # 0 => profiles[id] \in master_dir
    /\ ~(answer.op = "generate" /\ answer.error = "missing")

\* a run-properties element without its references to the theme's fonts
StripRefs(rpr) ==
    [rpr EXCEPT !.latin = IF @ \in ThemeFontRefs THEN None ELSE @,
                !.ea = IF @ \in ThemeFontRefs THEN None ELSE @]

\* a placeholder whose markup has no such reference
StripPlaceholder(p) ==
    [p EXCEPT !.body = [j \in 1..Len(p.body) |->
                          [i \in 1..Len(p.body[j]) |->
                              [p.body[j][i] EXCEPT !.rpr = StripRefs(@)]]]]

\* the master text styles read from markup that has no such reference
StripStyles(ms) ==
    [sn \in DOMAIN ms |->
        IF ms[sn].present
        THEN extract_master_text_style(StripRefs(ms[sn].made_from[1]),
                                       StripRefs(ms[sn].made_from[2]))
        ELSE ms[sn]]

\* C30: a typeface that is a reference to a theme font (it starts with "+")
\* counts as absent at the master-style layer and at the override layer: it
\* is never the resolved name or ea_name, and the resolved font is what the
\* same markup without the reference gives, so the next lower layer's value
\* (in the end the theme's font) stays.
C30_ThemeFontRefAbsent ==
    /\ detail.font.name \notin ThemeFontRefs
    /\ detail.font.ea_name \notin ThemeFontRefs
    /\ \A sn \in DOMAIN master_styles :
          /\ master_styles[sn].name \notin ThemeFontRefs
          /\ master_styles[sn].ea_name \notin ThemeFontRefs
    /\ detail.font = extract_placeholder_detail(StripPlaceholder(ph),
                                                StripStyles(master_styles),
                                                theme_fonts, theme_colors).font

\* a placeholder whose run names +mn-lt under a master style that names
\* +mj-lt: the resolved name is the theme's font
C30_Witness ==
    /\ \E j \in 1..Len(ph.body) : \E i \in 1..Len(ph.body[j]) :
          ph.body[j][i].tag = "r" /\ ph.body[j][i].rpr.latin = "+mn-lt"
    /\ detail.cascade_style.present
    /\ detail.cascade_style.made_from[2].latin = "+mj-lt"
    /\ detail.cascade_style.name = None
    /\ detail.xml_font.name = None
    /\ detail.font.name \in {"Cambria", "Georgia"}

====
